---------------------------- MODULE Spec2Model ----------------------------
(***************************************************************************)
(* Model of the transform pipeline of trends_analyzer                      *)
(* (src/src/trends_analyzer/core/processor.py, class DataProcessor).       *)
(*                                                                         *)
(* A frame (pandas DataFrame) is a record                                  *)
(*     [cols |-> sequence of column names, rows |-> sequence of rows]      *)
(* and a row is a function from the frame's column names to cells.         *)
(*                                                                         *)
(* Cells.  A numeric cell is a tagged pair: <<"num", n>> is the decimal    *)
(* number n / 100 (two decimals, the precision DataProcessor rounds to),   *)
(* <<"nan", 0>> is the float NaN (pandas' null), <<"inf", 1>> and          *)
(* <<"inf", -1>> are the two float infinities.  A `_pct_change` cell is    *)
(* the exception: the code rounds it to four decimals, so there            *)
(* <<"num", n>> is n / 10000.  `year` and `month` cells are plain          *)
(* integers, a `date` cell is a triple <<year, month, day>>.               *)
(* Rounding is round-half-to-even on the exact value; the binary           *)
(* representation error of floats is modelled for the mean of a column of  *)
(* equal values only.                                                      *)
(***************************************************************************)
EXTENDS Integers, Sequences, FiniteSets, TLC

VARIABLES
    pc,             \* position of the modelled call: "start" or "done"
    daily,          \* merge_daily_monthly: argument daily_data
    monthly,        \* merge_daily_monthly: argument monthly_data
    keywords,       \* merge_daily_monthly: argument keywords
    merged,         \* outcome of merge_daily_monthly
    data,           \* calculate_trends: argument data
    value_columns,  \* calculate_trends: argument value_columns
    window_size,    \* calculate_trends: argument window_size
    pad,            \* the installed pandas pads nulls in pct_change (before 3.0)
    trends,         \* outcome of calculate_trends
    again_on,       \* second calculate_trends call: "input" or "output" frame
    again,          \* outcome of the second calculate_trends call
    series,         \* detect_anomalies: argument data of the latest call
    columns,        \* detect_anomalies: argument value_columns
    method,         \* detect_anomalies: argument method
    threshold,      \* detect_anomalies: argument threshold, in tenths
    detected,       \* outcome of the latest detect_anomalies call
    calls,          \* number of detect_anomalies calls made so far
    to_normalize,   \* normalize_data: argument data
    norm_method,    \* normalize_data: argument method
    norm_columns,   \* normalize_data: argument columns
    normalized,     \* outcome of normalize_data
    to_aggregate,   \* aggregate_data: argument data
    groupby_columns,\* aggregate_data: argument groupby_columns
    agg_columns,    \* aggregate_data: argument value_columns
    agg_functions,  \* aggregate_data: argument agg_functions
    aggregated,     \* outcome of aggregate_data
    transform,      \* the transform that the caller calls
    after,          \* what the frame objects passed to the latest call hold after it
    same_object,    \* the latest call returned the object passed as `data`
    requested,      \* validate_keywords: argument keywords
    validated,      \* outcome of validate_keywords
    collector,      \* get_comprehensive_analysis: what the collector's calls give
    include_related,\* get_comprehensive_analysis: argument include_related
    analysis,       \* outcome of get_comprehensive_analysis
    steps,          \* the calls get_comprehensive_analysis has made, in order
    retry_attempts, \* DataCollector.retry_attempts
    answers,        \* what the provider gave at each attempt so far
    collected,      \* outcome of collect_interest_over_time
    keyword_list,   \* analyze_batch: argument keyword_list
    batch_size,     \* analyze_batch: argument batch_size
    batches,        \* the get_trends calls analyze_batch has made, in order
    analyzed        \* outcome of analyze_batch

vars == <<pc, daily, monthly, keywords, merged,
          data, value_columns, window_size, pad, trends, again_on, again,
          series, columns, method, threshold, detected, calls,
          to_normalize, norm_method, norm_columns, normalized,
          to_aggregate, groupby_columns, agg_columns, agg_functions, aggregated,
          transform, after, same_object,
          requested, validated,
          collector, include_related, analysis, steps,
          retry_attempts, answers, collected,
          keyword_list, batch_size, batches, analyzed>>

rebase_vars == <<daily, monthly, keywords, merged>>
trend_vars == <<data, value_columns, window_size, pad, trends, again_on, again>>
anomaly_vars == <<series, columns, method, threshold, detected, calls>>
normalize_vars == <<to_normalize, norm_method, norm_columns, normalized>>
aggregate_vars == <<to_aggregate, groupby_columns, agg_columns, agg_functions, aggregated>>
validate_vars == <<requested, validated>>
analysis_vars == <<collector, include_related, analysis, steps>>
collect_vars == <<retry_attempts, answers, collected>>
batch_vars == <<keyword_list, batch_size, batches, analyzed>>
request_vars == <<validate_vars, analysis_vars, collect_vars, batch_vars>>

---------------------------------------------------------------------------
(* Bounds of the model *)

MaxDailyRows == 2
MaxMonthlyRows == 2
MaxTrendRows == 3
MaxWindow == 3

---------------------------------------------------------------------------
(* Cells and arithmetic *)

Num(n) == <<"num", n>>
NaN == <<"nan", 0>>
PosInf == <<"inf", 1>>
NegInf == <<"inf", -1>>

IsNum(c) == c[1] = "num"
IsNaN(c) == c[1] = "nan"
IsInf(c) == c[1] = "inf"
Val(c) == c[2]

Range(s) == {s[i] : i \in 1..Len(s)}

\* n / d rounded to the nearest integer, ties to the even one (d > 0).
RoundDiv(n, d) ==
    LET q == n \div d
        r == n % d
    IN  IF 2 * r < d THEN q
        ELSE IF 2 * r > d THEN q + 1
        ELSE IF q % 2 = 0 THEN q ELSE q + 1

\* n / d rounded to the nearest integer, ties to even, for any d # 0
RoundRatio(n, d) == IF d > 0 THEN RoundDiv(n, d) ELSE RoundDiv(-n, -d)

RECURSIVE GCD(_, _)
GCD(a, b) == IF b = 0 THEN a ELSE GCD(b, a % b)

\* the largest r in lo..hi with r * r <= k
RECURSIVE ISqrtIn(_, _, _)
ISqrtIn(k, lo, hi) ==
    IF lo >= hi THEN lo
    ELSE LET mid == (lo + hi + 1) \div 2
         IN  IF mid * mid <= k THEN ISqrtIn(k, mid, hi) ELSE ISqrtIn(k, lo, mid - 1)

ISqrt(k) == ISqrtIn(k, 0, 46340)

\* <<q, r>>: q = floor(n * 10^digits / d), r = 0 iff the division is exact
RECURSIVE LongDiv(_, _, _, _)
LongDiv(q, r, d, digits) ==
    IF digits = 0 THEN <<q, r>>
    ELSE LongDiv(q * 10 + (r * 10) \div d, (r * 10) % d, d, digits - 1)

\* sqrt(a / b) * 10^k rounded to the nearest integer, ties to even
\* (a >= 0, b > 0): with K = 4 * 10^(2k) * a / b it is floor((sqrt(K) + 1) / 2)
RoundSqrt(a, b, k) ==
    LET g == GCD(a, b)
        n == 4 * (a \div g)
        d == b \div g
        qr == LongDiv(n \div d, n % d, d, 2 * k)
        root == ISqrt(qr[1])
        half == (root + 1) \div 2
    IN  IF qr[2] = 0 /\ root * root = qr[1] /\ root % 2 = 1 /\ half % 2 = 1
        THEN half - 1 ELSE half

---------------------------------------------------------------------------
(* Frames *)

EmptyFrame == [cols |-> <<>>, rows |-> <<>>]

IsEmpty(f) == Len(f.cols) = 0 \/ Len(f.rows) = 0

HasCol(f, c) == c \in Range(f.cols)

Column(f, c) == [i \in 1..Len(f.rows) |-> f.rows[i][c]]

\* frame[[c for c in frame.columns if c not in drop]]
DropCols(f, drop) ==
    LET cs == SelectSeq(f.cols, LAMBDA c : c \notin drop)
    IN  [cols |-> cs,
         rows |-> [i \in 1..Len(f.rows) |-> [c \in Range(cs) |-> f.rows[i][c]]]]

\* frame[c] = vals : replaces the column when it exists, appends it otherwise
SetCol(f, c, vals) ==
    LET cs == IF HasCol(f, c) THEN f.cols ELSE Append(f.cols, c)
    IN  [cols |-> cs,
         rows |-> [i \in 1..Len(f.rows) |->
                     [d \in Range(cs) |-> IF d = c THEN vals[i] ELSE f.rows[i][d]]]]

DateLess(a, b) ==
    \/ a[1] < b[1]
    \/ a[1] = b[1] /\ a[2] < b[2]
    \/ a[1] = b[1] /\ a[2] = b[2] /\ a[3] < b[3]

\* rows sorted by `date` ascending, rows of equal date keep their order
RECURSIVE InsertByDate(_, _)
InsertByDate(sorted, r) ==
    IF sorted = <<>> THEN <<r>>
    ELSE IF DateLess(r["date"], sorted[Len(sorted)]["date"])
         THEN Append(InsertByDate(SubSeq(sorted, 1, Len(sorted) - 1), r),
                     sorted[Len(sorted)])
         ELSE Append(sorted, r)

RECURSIVE SortRowsByDate(_)
SortRowsByDate(rows) ==
    IF rows = <<>> THEN <<>>
    ELSE InsertByDate(SortRowsByDate(SubSeq(rows, 1, Len(rows) - 1)), rows[Len(rows)])

SortByDate(f) == [cols |-> f.cols, rows |-> SortRowsByDate(f.rows)]

---------------------------------------------------------------------------
(* Frame objects *)
(* A frame variable of the code refers to an object.  "data", "daily_data"  *)
(* and "monthly_data" name the objects the caller passed; "copy" and "new"  *)
(* name objects made during the call.                                       *)

\* mutant: the copy is the object itself
Copy_SameObject(ref) == ref

\* frame.copy(): a new object that holds what the object `ref` holds
Copy(ref) == "copy"

\* what the passed object `ref`, which held d, holds after a call that wrote
\* the frame `written` into the object `working`
After(ref, d, working, written) == IF working = ref THEN written ELSE d

---------------------------------------------------------------------------
(* DataProcessor.merge_daily_monthly ("rebase") *)

KeyCols == <<"year", "month">>

\* an outcome of a call: a returned frame, or an exception leaving the call
Returned(f) == [status |-> "returned", frame |-> f]
Raised == [status |-> "raised", frame |-> EmptyFrame]

\* mutant: the emptiness of the monthly frame is not tested
EmptyInput_DailyOnly(d, m) == IsEmpty(d)

\* daily_data.empty or monthly_data.empty
EmptyInput(d, m) == IsEmpty(d) \/ IsEmpty(m)

\* the `for col in required_cols` check: a required column is missing
MissingRequired(d, m) ==
    \E i \in 1..Len(KeyCols) : ~ HasCol(d, KeyCols[i]) \/ ~ HasCol(m, KeyCols[i])

\* mutant: the monthly frame goes into the join with its date column
MonthlyForMerge_KeepDate(m) == m

\* monthly_data[[col for col in monthly_data.columns if col != 'date']].copy()
MonthlyForMerge(m) == DropCols(m, {"date"})

\* pd.merge raises KeyError when a key of `on` is missing from a side
MergeRaises(left, right) ==
    \E i \in 1..Len(KeyCols) : ~ HasCol(left, KeyCols[i]) \/ ~ HasCol(right, KeyCols[i])

\* name of right column c in the result: suffixes=('', '_monthly') rename a
\* non-key column that both sides have
MergedName(left, c) ==
    IF HasCol(left, c) /\ c \notin Range(KeyCols) THEN c \o "_monthly" ELSE c

SameKey(l, r) == \A i \in 1..Len(KeyCols) : l[KeyCols[i]] = r[KeyCols[i]]

\* mutant: an inner join, a left row without a match is lost
JoinRow_Inner(left, right, rcols, l) ==
    LET allc == Range(left.cols) \cup {MergedName(left, c) : c \in Range(rcols)}
        src(n) == CHOOSE c \in Range(rcols) : MergedName(left, c) = n
        hits == SelectSeq(right.rows, LAMBDA r : SameKey(l, r))
    IN  [j \in 1..Len(hits) |->
            [n \in allc |-> IF n \in Range(left.cols) THEN l[n] ELSE hits[j][src(n)]]]

\* the rows that left row l yields: one per matching right row, in the right
\* frame's order, or a single row with nulls on the right when none matches
JoinRow(left, right, rcols, l) ==
    LET allc == Range(left.cols) \cup {MergedName(left, c) : c \in Range(rcols)}
        src(n) == CHOOSE c \in Range(rcols) : MergedName(left, c) = n
        hits == SelectSeq(right.rows, LAMBDA r : SameKey(l, r))
    IN  IF hits = <<>>
        THEN << [n \in allc |-> IF n \in Range(left.cols) THEN l[n] ELSE NaN] >>
        ELSE [j \in 1..Len(hits) |->
                [n \in allc |-> IF n \in Range(left.cols) THEN l[n] ELSE hits[j][src(n)]]]

RECURSIVE JoinRows(_, _, _, _)
JoinRows(left, right, rcols, k) ==
    IF k = 0 THEN <<>>
    ELSE JoinRows(left, right, rcols, k - 1) \o JoinRow(left, right, rcols, left.rows[k])

\* pd.merge(left, right, how='left', on=['year', 'month'], suffixes=('', '_monthly'))
Merge(left, right) ==
    LET rcols == SelectSeq(right.cols, LAMBDA c : c \notin Range(KeyCols))
    IN  [cols |-> left.cols \o [i \in 1..Len(rcols) |-> MergedName(left, rcols[i])],
         rows |-> JoinRows(left, right, rcols, Len(left.rows))]

\* mutant: the division by 100 is missing
ScaleCell_NoPercent(d, m) ==
    IF IsNaN(d) \/ IsNaN(m) THEN NaN
    ELSE Num(RoundDiv(Val(d) * Val(m), 100))

\* (daily * monthly / 100).round(2); a null operand gives a null
ScaleCell(d, m) ==
    IF IsNaN(d) \/ IsNaN(m) THEN NaN
    ELSE Num(RoundDiv(Val(d) * Val(m), 10000))

\* mutant: the literal daily column is not dropped after scaling
ScaleKeyword_KeepLiteral(f, keyword) ==
    LET daily_col == keyword
        monthly_col == keyword \o "_monthly"
        scaled_col == keyword \o "_daily"
    IN  IF HasCol(f, daily_col) /\ HasCol(f, monthly_col)
        THEN SetCol(f, scaled_col,
                    [i \in 1..Len(f.rows) |->
                        ScaleCell(f.rows[i][daily_col], f.rows[i][monthly_col])])
        ELSE f

\* one pass of the `for keyword in keywords` loop
ScaleKeyword(f, keyword) ==
    LET daily_col == keyword
        monthly_col == keyword \o "_monthly"
        scaled_col == keyword \o "_daily"
    IN  IF HasCol(f, daily_col) /\ HasCol(f, monthly_col)
        THEN DropCols(SetCol(f, scaled_col,
                             [i \in 1..Len(f.rows) |->
                                 ScaleCell(f.rows[i][daily_col], f.rows[i][monthly_col])]),
                      {daily_col})
        ELSE f

\* mutant: the loop ends at the first keyword that lacks a column
RECURSIVE ScaleKeywords_StopAtMissing(_, _, _)
ScaleKeywords_StopAtMissing(f, kws, k) ==
    IF k = 0 THEN f
    ELSE IF \E j \in 1..(k - 1) :
                ~ (HasCol(f, kws[j]) /\ HasCol(f, kws[j] \o "_monthly"))
         THEN ScaleKeywords_StopAtMissing(f, kws, k - 1)
         ELSE ScaleKeyword(ScaleKeywords_StopAtMissing(f, kws, k - 1), kws[k])

RECURSIVE ScaleKeywords(_, _, _)
ScaleKeywords(f, kws, k) ==
    IF k = 0 THEN f
    ELSE ScaleKeyword(ScaleKeywords(f, kws, k - 1), kws[k])

merge_daily_monthly(d, m, kws) ==
    IF EmptyInput(d, m) THEN Returned(EmptyFrame)
    ELSE IF MissingRequired(d, m) THEN Returned(EmptyFrame)
    ELSE LET monthly_for_merge == MonthlyForMerge(m)
         IN  IF MergeRaises(d, monthly_for_merge) THEN Raised
             ELSE LET scaled == ScaleKeywords(Merge(d, monthly_for_merge), kws, Len(kws))
                      dropped == DropCols(scaled, {"year", "month"})
                  IN  Returned(IF HasCol(dropped, "date")
                               THEN SortByDate(dropped) ELSE dropped)

---------------------------------------------------------------------------
(* Inputs of merge_daily_monthly: frames as DataCollector builds them      *)
(* (collect_daily_data, collect_monthly_data), with or without the columns *)
(* the handler tests for.                                                  *)

Keywords == {"kw1", "kw2"}

DailyDates == {<<2023, 1, 15>>, <<2023, 1, 20>>, <<2023, 2, 10>>}
Periods == {<<2023, 1>>, <<2023, 2>>}

DailyValues == {Num(0), Num(5000)}          \* kw1: 0 and 50
DailyValue2 == Num(3300)                    \* kw2: 33
MonthlyValues == {Num(8000), NaN}           \* kw1 baseline: 80, or no data
MonthlyValue2 == Num(7700)                  \* kw2 baseline: 77

DailyShapes ==
    { <<"date", "kw1", "kw2", "month", "year">>,
      <<"date", "kw1", "month", "year">>,
      <<"date", "kw1", "kw2", "month">>,
      <<"date", "kw1", "kw2", "year">>,
      <<"kw1", "kw2", "month", "year">> }

MonthlyShapes ==
    { <<"date", "kw1_monthly", "kw2_monthly", "month", "year">>,
      <<"date", "kw1", "kw2", "month", "year">>,
      <<"date", "kw1_monthly", "month", "year">>,
      <<"date", "kw1_monthly", "kw2_monthly", "month">>,
      <<"date", "kw1_monthly", "kw2_monthly", "year">> }

\* a day's observation: month and year are derived from the date
DailyCell(b, c) ==
    CASE c = "date" -> b.date
      [] c = "year" -> b.date[1]
      [] c = "month" -> b.date[2]
      [] c = "kw1" -> b.v1
      [] OTHER -> DailyValue2

\* a month's observation: its date is the first day of the month
MonthlyCell(b, c) ==
    CASE c = "date" -> <<b.p[1], b.p[2], 1>>
      [] c = "year" -> b.p[1]
      [] c = "month" -> b.p[2]
      [] c \in {"kw1", "kw1_monthly"} -> b.v1
      [] OTHER -> MonthlyValue2

SeqsUpTo(S, n) == UNION {[1..k -> S] : k \in 0..n}

DailyObservations ==
    { s \in SeqsUpTo([date : DailyDates, v1 : DailyValues], MaxDailyRows) :
        \A i, j \in 1..Len(s) : i # j => s[i].date # s[j].date }

MonthlyObservations == SeqsUpTo([p : Periods, v1 : MonthlyValues], MaxMonthlyRows)

DailyFrames ==
    { [cols |-> sh,
       rows |-> [i \in 1..Len(obs) |-> [c \in Range(sh) |-> DailyCell(obs[i], c)]]] :
        sh \in DailyShapes, obs \in DailyObservations } \cup {EmptyFrame}

MonthlyFrames ==
    { [cols |-> sh,
       rows |-> [i \in 1..Len(obs) |-> [c \in Range(sh) |-> MonthlyCell(obs[i], c)]]] :
        sh \in MonthlyShapes, obs \in MonthlyObservations } \cup {EmptyFrame}

KeywordLists ==
    { s \in SeqsUpTo(Keywords, Cardinality(Keywords)) :
        \A i, j \in 1..Len(s) : i # j => s[i] # s[j] }

---------------------------------------------------------------------------
(* The rebase call as a state machine *)

NoOutcome == [status |-> "none", frame |-> EmptyFrame]

\* no merge_daily_monthly call is under way
NoRebaseCall ==
    /\ daily = EmptyFrame
    /\ monthly = EmptyFrame
    /\ keywords = <<>>
    /\ merged = NoOutcome

\* no calculate_trends call is under way
NoTrendsCall ==
    /\ data = EmptyFrame
    /\ value_columns = <<>>
    /\ window_size = 1
    /\ pad = FALSE
    /\ trends = NoOutcome
    /\ again_on = "none"
    /\ again = NoOutcome

\* no normalize_data call is under way
NoNormalizeCall ==
    /\ to_normalize = EmptyFrame
    /\ norm_method = "minmax"
    /\ norm_columns = <<>>
    /\ normalized = NoOutcome

\* no aggregate_data call is under way
NoAggregateCall ==
    /\ to_aggregate = EmptyFrame
    /\ groupby_columns = <<>>
    /\ agg_columns = <<>>
    /\ agg_functions = <<>>
    /\ aggregated = NoOutcome

\* no frame object was passed yet
NothingPassed ==
    /\ after = <<>>
    /\ same_object = FALSE

\* no detect_anomalies call is under way
NoAnomalyCall ==
    /\ series = EmptyFrame
    /\ columns = <<>>
    /\ method = "iqr"
    /\ threshold = 15
    /\ detected = NoOutcome
    /\ calls = 0

\* no validate_keywords call is under way
NoValidateCall ==
    /\ requested = <<"list", <<>>>>
    /\ validated = [status |-> "none", value |-> <<>>]

\* the collector of a get_comprehensive_analysis call that is not made
NoCollector ==
    [periods |-> "returned", daily_data |-> EmptyFrame,
     monthly_data |-> [status |-> "returned", frame |-> EmptyFrame]]

\* no get_comprehensive_analysis call is under way
NoAnalysisCall ==
    /\ collector = NoCollector
    /\ include_related = FALSE
    /\ analysis = [status |-> "none", results |-> <<>>]
    /\ steps = <<>>

\* no collect_interest_over_time call is under way
NoCollectCall ==
    /\ retry_attempts = 0
    /\ answers = <<>>
    /\ collected = [status |-> "none", data |-> "empty"]

\* no analyze_batch call is under way
NoBatchCall ==
    /\ keyword_list = <<>>
    /\ batch_size = 5
    /\ batches = <<>>
    /\ analyzed = [status |-> "none", results |-> <<>>]

\* no call of the functions around the transforms
NoRequest ==
    /\ NoValidateCall
    /\ NoAnalysisCall
    /\ NoCollectCall
    /\ NoBatchCall

InitRebase ==
    /\ pc = "start"
    /\ daily \in DailyFrames
    /\ monthly \in MonthlyFrames
    /\ keywords \in KeywordLists
    /\ merged = NoOutcome
    /\ data = EmptyFrame
    /\ value_columns = <<>>
    /\ window_size = 1
    /\ pad = FALSE
    /\ trends = NoOutcome
    /\ again_on = "none"
    /\ again = NoOutcome
    /\ NoAnomalyCall
    /\ NoNormalizeCall
    /\ NoAggregateCall
    /\ transform = "merge_daily_monthly"
    /\ NothingPassed
    /\ NoRequest

\* the handler writes into `merged_data`, the new object that pd.merge
\* returns, and returns it, or the new object of pd.DataFrame()
Rebase ==
    /\ pc = "start"
    /\ transform = "merge_daily_monthly"
    /\ merged' = merge_daily_monthly(daily, monthly, keywords)
    /\ after' = <<After("daily_data", daily, "new", merged'.frame),
                  After("monthly_data", monthly, "new", merged'.frame)>>
    /\ same_object' = FALSE
    /\ pc' = "done"
    /\ UNCHANGED <<daily, monthly, keywords>>
    /\ UNCHANGED <<trend_vars, anomaly_vars, normalize_vars, aggregate_vars, transform>>
    /\ UNCHANGED request_vars

NextRebase == Rebase

SpecRebase == InitRebase /\ [][NextRebase]_vars

---------------------------------------------------------------------------
(* Properties of merge_daily_monthly *)

Done == pc = "done"
Out == merged.frame
NonEmptyInputs == ~ IsEmpty(daily) /\ ~ IsEmpty(monthly)
KeysPresent == \A c \in {"year", "month"} : HasCol(daily, c) /\ HasCol(monthly, c)

\* the monthly column that the join presents as `{k}_monthly`
MonthlyColumn(k) == IF HasCol(monthly, k \o "_monthly") THEN k \o "_monthly" ELSE k
\* keyword k has a literal daily column and a `{k}_monthly` column after the join
Rescalable(k) ==
    /\ HasCol(daily, k)
    /\ HasCol(monthly, k \o "_monthly") \/ HasCol(monthly, k)

SamePeriod(i, j) ==
    /\ daily.rows[i]["year"] = monthly.rows[j]["year"]
    /\ daily.rows[i]["month"] = monthly.rows[j]["month"]
HasBaseline(i) == \E j \in 1..Len(monthly.rows) : SamePeriod(i, j)
UniquePeriods ==
    \A j1, j2 \in 1..Len(monthly.rows) :
        j1 # j2 => \/ monthly.rows[j1]["year"] # monthly.rows[j2]["year"]
                   \/ monthly.rows[j1]["month"] # monthly.rows[j2]["month"]

\* output row o is daily row i: daily dates are distinct; a frame without
\* dates is not sorted, and a join without duplicates keeps the daily order
IsDailyRow(o, i) ==
    IF HasCol(daily, "date")
    THEN HasCol(Out, "date") /\ Out.rows[o]["date"] = daily.rows[i]["date"]
    ELSE UniquePeriods => o = i

\* round(daily_value * monthly_value / 100, 2), in hundredths
RoundedProduct(d, m) ==
    IF d[1] = "nan" \/ m[1] = "nan" THEN <<"nan", 0>>
    ELSE <<"num", RoundDiv(d[2] * m[2], 10000)>>

\* C1: rebase: for every daily row whose (year, month) has a monthly row and
\* every keyword of `keywords` that has a literal daily column and a
\* `{keyword}_monthly` column, the output row carries
\* `{keyword}_daily` = round(daily_value * monthly_value / 100, 2).
C1_RebasedValue ==
    (Done /\ NonEmptyInputs /\ KeysPresent) =>
        /\ merged.status = "returned"
        /\ \A i \in 1..Len(daily.rows), j \in 1..Len(monthly.rows) :
             SamePeriod(i, j) =>
                \A n \in 1..Len(keywords) :
                    LET k == keywords[n] IN
                    Rescalable(k) =>
                        /\ HasCol(Out, k \o "_daily")
                        /\ \E o \in 1..Len(Out.rows) :
                             /\ IsDailyRow(o, i)
                             /\ Out.rows[o][k \o "_daily"] =
                                  RoundedProduct(daily.rows[i][k],
                                                 monthly.rows[j][MonthlyColumn(k)])

\* C1 witness: daily 50 with monthly 80 was rebased to 40.0
C1_Witness ==
    /\ Done /\ NonEmptyInputs /\ KeysPresent
    /\ "kw1" \in Range(keywords) /\ Rescalable("kw1")
    /\ \E i \in 1..Len(daily.rows), j \in 1..Len(monthly.rows) :
         /\ SamePeriod(i, j)
         /\ daily.rows[i]["kw1"] = Num(5000)
         /\ monthly.rows[j][MonthlyColumn("kw1")] = Num(8000)
    /\ HasCol(Out, "kw1_daily")
    /\ \E o \in 1..Len(Out.rows) : Out.rows[o]["kw1_daily"] = Num(4000)

\* C2: rebase called with a non-empty daily or monthly frame that lacks the
\* `year` or the `month` column fails with a hard error; it never returns an
\* empty result in that case.
C2_MissingColumnRaises ==
    (Done /\ NonEmptyInputs /\ ~ KeysPresent) => merged.status = "raised"

\* C3: rebase is a left join on (year, month): with both key columns present
\* it does not raise (overlap or not); when the monthly frame has at most one
\* row per (year, month), every daily row appears exactly once in the output,
\* and a daily row without a monthly baseline gets a null `{keyword}_daily`.
C3_LeftJoin ==
    (Done /\ NonEmptyInputs /\ KeysPresent) =>
        /\ merged.status = "returned"
        /\ UniquePeriods =>
            /\ Len(Out.rows) = Len(daily.rows)
            /\ \A i \in 1..Len(daily.rows) :
                 /\ \E o \in 1..Len(Out.rows) : IsDailyRow(o, i)
                 /\ Cardinality({o \in 1..Len(Out.rows) : IsDailyRow(o, i)}) = 1
                 /\ ~ HasBaseline(i) =>
                      \A n \in 1..Len(keywords) :
                          Rescalable(keywords[n]) =>
                              \A o \in 1..Len(Out.rows) :
                                  IsDailyRow(o, i) =>
                                      Out.rows[o][keywords[n] \o "_daily"] = NaN

\* C3 witness: no (year, month) overlaps, every daily row is kept with a null
C3_Witness ==
    /\ Done /\ NonEmptyInputs /\ KeysPresent /\ UniquePeriods
    /\ merged.status = "returned"
    /\ Len(daily.rows) = 2 /\ Len(Out.rows) = 2
    /\ \A i \in 1..Len(daily.rows) : ~ HasBaseline(i)
    /\ HasCol(Out, "kw1_daily")
    /\ \A o \in 1..Len(Out.rows) : Out.rows[o]["kw1_daily"] = NaN

SharedPeriod == \E i \in 1..Len(daily.rows), j \in 1..Len(monthly.rows) : SamePeriod(i, j)

\* C4: for non-empty inputs sharing a (year, month) pair, the output has, for
\* each keyword with a daily literal column and a `{keyword}_monthly` column,
\* exactly one `{keyword}_daily` column and no literal `{keyword}` column, and
\* it has neither a `year` nor a `month` column.
C4_OutputColumns ==
    (Done /\ NonEmptyInputs /\ KeysPresent /\ SharedPeriod) =>
        /\ merged.status = "returned"
        /\ \A n \in 1..Len(keywords) :
             Rescalable(keywords[n]) =>
                /\ Cardinality({c \in 1..Len(Out.cols) :
                                  Out.cols[c] = keywords[n] \o "_daily"}) = 1
                /\ ~ HasCol(Out, keywords[n])
        /\ ~ HasCol(Out, "year")
        /\ ~ HasCol(Out, "month")

\* C4 witness: two keywords rescaled in one call
C4_Witness ==
    /\ Done /\ NonEmptyInputs /\ KeysPresent /\ SharedPeriod
    /\ Len(keywords) = 2
    /\ \A n \in 1..Len(keywords) : Rescalable(keywords[n])
    /\ HasCol(Out, "kw1_daily") /\ HasCol(Out, "kw2_daily")
    /\ ~ HasCol(Out, "kw1") /\ ~ HasCol(Out, "kw2")

\* C5: a keyword of `keywords` without a `{keyword}_monthly` column does not
\* make rebase raise; its literal daily column and values are unchanged in the
\* output, no `{keyword}_daily` column is added for it, and every other
\* keyword of the call that has both columns is still rescaled, whatever the
\* order of `keywords`.
C5_KeywordWithoutBaseline ==
    (Done /\ NonEmptyInputs /\ KeysPresent) =>
        /\ merged.status = "returned"
        /\ \A n \in 1..Len(keywords) :
             LET k == keywords[n] IN
             (HasCol(daily, k) /\ ~ Rescalable(k)) =>
                /\ HasCol(Out, k)
                /\ ~ HasCol(Out, k \o "_daily")
                /\ \A i \in 1..Len(daily.rows) :
                     \E o \in 1..Len(Out.rows) :
                        IsDailyRow(o, i) /\ Out.rows[o][k] = daily.rows[i][k]
                /\ \A o \in 1..Len(Out.rows) :
                     \E i \in 1..Len(daily.rows) :
                        IsDailyRow(o, i) /\ Out.rows[o][k] = daily.rows[i][k]
                /\ \A n2 \in 1..Len(keywords) :
                     Rescalable(keywords[n2]) =>
                        /\ HasCol(Out, keywords[n2] \o "_daily")
                        /\ ~ HasCol(Out, keywords[n2])

\* C5 witness: kw2 comes first and has no baseline, kw1 is rescaled after it
C5_Witness ==
    /\ Done /\ NonEmptyInputs /\ KeysPresent
    /\ keywords = <<"kw2", "kw1">>
    /\ HasCol(daily, "kw2") /\ ~ Rescalable("kw2") /\ Rescalable("kw1")
    /\ HasCol(Out, "kw2") /\ ~ HasCol(Out, "kw2_daily")
    /\ HasCol(Out, "kw1_daily")

\* C6: the output is sorted by `date` ascending and its `date` column holds
\* the daily frame's dates: the monthly frame's `date` column never appears in
\* the output, under any name, and never replaces a daily date.
C6_DailyDatesSorted ==
    (Done /\ NonEmptyInputs /\ KeysPresent) =>
        /\ merged.status = "returned"
        /\ HasCol(Out, "date") <=> HasCol(daily, "date")
        /\ HasCol(Out, "date") =>
            /\ \A o \in 1..(Len(Out.rows) - 1) :
                 ~ DateLess(Out.rows[o + 1]["date"], Out.rows[o]["date"])
            /\ {Out.rows[o]["date"] : o \in 1..Len(Out.rows)} =
                 {daily.rows[i]["date"] : i \in 1..Len(daily.rows)}
        /\ \A c \in 1..Len(Out.cols) :
             \/ HasCol(daily, Out.cols[c])
             \/ \E k \in Range(keywords) : Out.cols[c] = k \o "_daily"
             \/ \E mc \in Range(monthly.cols) \ {"date"} :
                   Out.cols[c] \in {mc, mc \o "_monthly"}

\* C6 witness: daily rows given out of date order come back in date order,
\* next to a monthly frame that has a date column
C6_Witness ==
    /\ Done /\ NonEmptyInputs /\ KeysPresent
    /\ HasCol(monthly, "date") /\ HasCol(daily, "date")
    /\ Len(daily.rows) = 2
    /\ DateLess(daily.rows[2]["date"], daily.rows[1]["date"])
    /\ Len(Out.rows) = 2
    /\ Out.rows[1]["date"] = daily.rows[2]["date"]
    /\ Out.rows[2]["date"] = daily.rows[1]["date"]

\* C7: rebase with an empty daily frame or an empty monthly frame returns an
\* empty frame and raises nothing, whether or not the `year`/`month` columns
\* are present in the empty frame.
C7_EmptyInput ==
    (Done /\ ~ NonEmptyInputs) =>
        /\ merged.status = "returned"
        /\ IsEmpty(Out)

\* C7 witness: a non-empty daily frame met an empty monthly frame that has
\* its key columns
C7_Witness ==
    /\ Done /\ ~ IsEmpty(daily) /\ IsEmpty(monthly)
    /\ HasCol(daily, "year") /\ HasCol(daily, "month")
    /\ HasCol(monthly, "year") /\ HasCol(monthly, "month")
    /\ merged = Returned(EmptyFrame)

---------------------------------------------------------------------------
(* DataProcessor.calculate_trends *)

\* the cells of the window of w observations that ends at row t, nulls left out
\* (rolling(window=w, min_periods=1) skips nulls and needs one observation)
WindowCells(values, t, w) ==
    LET first == IF t - w + 1 > 1 THEN t - w + 1 ELSE 1
    IN  SelectSeq(SubSeq(values, first, t), IsNum)

RECURSIVE SumVals(_, _)
SumVals(cells, k) == IF k = 0 THEN 0 ELSE SumVals(cells, k - 1) + Val(cells[k])

RECURSIVE SumSquares(_, _)
SumSquares(cells, k) ==
    IF k = 0 THEN 0 ELSE SumSquares(cells, k - 1) + Val(cells[k]) * Val(cells[k])

\* n * sum(v^2) - sum(v)^2, that is n * (n - 1) * (sample variance)
Spread(cells) ==
    LET n == Len(cells)
        sm == SumVals(cells, n)
    IN  n * SumSquares(cells, n) - sm * sm

\* mutant: the rolling mean waits for a full window (min_periods=window)
RollingMean_FullWindow(values, t, w) ==
    LET cells == WindowCells(values, t, w)
    IN  IF Len(cells) < w THEN NaN
        ELSE Num(RoundDiv(SumVals(cells, Len(cells)), Len(cells)))

\* values.rolling(window, min_periods=1).mean().round(2)
RollingMean(values, t, w) ==
    LET cells == WindowCells(values, t, w)
    IN  IF Len(cells) = 0 THEN NaN
        ELSE Num(RoundDiv(SumVals(cells, Len(cells)), Len(cells)))

\* values.rolling(window, min_periods=1).std().round(2): the sample standard
\* deviation, null for a window of fewer than two observations
RollingStd(values, t, w) ==
    LET cells == WindowCells(values, t, w)
        n == Len(cells)
    IN  IF n < 2 THEN NaN
        ELSE Num(RoundSqrt(Spread(cells), n * (n - 1), 0))

\* float division a / b - 1, scaled by `scale` and rounded after fillna(0):
\* a null operand or 0 / 0 gives null, hence 0; x / 0 gives an infinity,
\* which fillna leaves in place
RelativeChange(a, b, scale) ==
    IF IsNaN(a) \/ IsNaN(b) THEN Num(0)
    ELSE IF Val(b) = 0
         THEN IF Val(a) = 0 THEN Num(0)
              ELSE IF Val(a) > 0 THEN PosInf ELSE NegInf
         ELSE Num(RoundRatio((Val(a) - Val(b)) * scale, Val(b)))

\* the last non-null cell at or before row t, null when there is none
\* (fillna(method='pad'))
RECURSIVE Padded(_, _)
Padded(values, t) ==
    IF t = 0 THEN NaN
    ELSE IF IsNum(values[t]) THEN values[t] ELSE Padded(values, t - 1)

\* mutant: the percentage change without fillna(0)
PctChange_NoFill(values, t, padding) ==
    LET cur == IF padding THEN Padded(values, t) ELSE values[t]
        prev == IF t = 1 THEN NaN
                ELSE IF padding THEN Padded(values, t - 1) ELSE values[t - 1]
    IN  IF IsNaN(cur) \/ IsNaN(prev) THEN NaN ELSE RelativeChange(cur, prev, 10000)

\* values.pct_change().fillna(0).round(4), in ten-thousandths
PctChange(values, t, padding) ==
    LET cur == IF padding THEN Padded(values, t) ELSE values[t]
        prev == IF t = 1 THEN NaN
                ELSE IF padding THEN Padded(values, t - 1) ELSE values[t - 1]
    IN  RelativeChange(cur, prev, 10000)

\* mutant: the growth rate looks back window_size - 1 rows
GrowthRate_OffByOne(values, t, w) ==
    RelativeChange(values[t], IF t > w - 1 THEN values[t - (w - 1)] ELSE NaN, 10000)

\* (((values / values.shift(w)) - 1) * 100).fillna(0).round(2)
GrowthRate(values, t, w) ==
    RelativeChange(values[t], IF t > w THEN values[t - w] ELSE NaN, 10000)

\* ((rolling_std / rolling_mean) * 100).fillna(0).round(2), from the unrounded
\* rolling statistics
Volatility(values, t, w) ==
    LET cells == WindowCells(values, t, w)
        n == Len(cells)
        sm == SumVals(cells, n)
        sp == Spread(cells)
    IN  IF n < 2 THEN Num(0)
        ELSE IF sm = 0 THEN (IF sp = 0 THEN Num(0) ELSE PosInf)
        ELSE LET size == RoundSqrt(sp * n, (n - 1) * sm * sm, 4)
             IN  Num(IF sm > 0 THEN size ELSE -size)

\* mutant: a moving average that follows an undefined one counts as a rise
TrendDirection_NullAsLow(ma, t) ==
    IF t = 1 \/ IsNaN(ma[t]) THEN 0
    ELSE IF IsNaN(ma[t - 1]) THEN 1
    ELSE IF Val(ma[t]) > Val(ma[t - 1]) THEN 1
    ELSE IF Val(ma[t]) < Val(ma[t - 1]) THEN -1
    ELSE 0

\* np.where(ma > ma.shift(1), 1, np.where(ma < ma.shift(1), -1, 0)):
\* a comparison with a null is false
TrendDirection(ma, t) ==
    IF t = 1 \/ IsNaN(ma[t]) \/ IsNaN(ma[t - 1]) THEN 0
    ELSE IF Val(ma[t]) > Val(ma[t - 1]) THEN 1
    ELSE IF Val(ma[t]) < Val(ma[t - 1]) THEN -1
    ELSE 0

\* mutant: the growth column is written whatever the length of the series
HasGrowth_Always(values, w) == TRUE

\* if len(values) >= window_size
HasGrowth(values, w) == Len(values) >= w

\* mutant: the moving average is written over the value column as well
TrendColumns_Smoothed(f, col, w, padding) ==
    LET values == Column(f, col)
        rows == 1..Len(values)
        ws == ToString(w)
        ma == [t \in rows |-> RollingMean(values, t, w)]
        f0 == SetCol(f, col, ma)
        f1 == SetCol(f0, col \o "_ma_" \o ws, ma)
        f2 == SetCol(f1, col \o "_std_" \o ws, [t \in rows |-> RollingStd(values, t, w)])
        f3 == SetCol(f2, col \o "_pct_change", [t \in rows |-> PctChange(values, t, padding)])
        f4 == IF HasGrowth(values, w)
              THEN SetCol(f3, col \o "_growth_" \o ws \o "d",
                          [t \in rows |-> GrowthRate(values, t, w)])
              ELSE f3
        f5 == SetCol(f4, col \o "_volatility", [t \in rows |-> Volatility(values, t, w)])
    IN  SetCol(f5, col \o "_trend_direction", [t \in rows |-> TrendDirection(ma, t)])

\* the body of the `for col in value_columns` loop for a column of the frame
TrendColumns(f, col, w, padding) ==
    LET values == Column(f, col)
        rows == 1..Len(values)
        ws == ToString(w)
        ma == [t \in rows |-> RollingMean(values, t, w)]
        f1 == SetCol(f, col \o "_ma_" \o ws, ma)
        f2 == SetCol(f1, col \o "_std_" \o ws, [t \in rows |-> RollingStd(values, t, w)])
        f3 == SetCol(f2, col \o "_pct_change", [t \in rows |-> PctChange(values, t, padding)])
        f4 == IF HasGrowth(values, w)
              THEN SetCol(f3, col \o "_growth_" \o ws \o "d",
                          [t \in rows |-> GrowthRate(values, t, w)])
              ELSE f3
        f5 == SetCol(f4, col \o "_volatility", [t \in rows |-> Volatility(values, t, w)])
    IN  SetCol(f5, col \o "_trend_direction", [t \in rows |-> TrendDirection(ma, t)])

RECURSIVE TrendLoop(_, _, _, _, _)
TrendLoop(f, cols, k, w, padding) ==
    IF k = 0 THEN f
    ELSE LET g == TrendLoop(f, cols, k - 1, w, padding)
         IN  IF HasCol(g, cols[k]) THEN TrendColumns(g, cols[k], w, padding) ELSE g

\* mutant: the rolling statistics are computed in row order
calculate_trends_RowOrder(d, cols, w, padding) ==
    IF IsEmpty(d) THEN Returned(d)
    ELSE Returned(TrendLoop(d, cols, Len(cols), w, padding))

\* the first round of the loop, from round k on, that raises (0 when none
\* does): a rolling window over a text column has nothing to aggregate
RECURSIVE TrendRaisesAt(_, _, _)
TrendRaisesAt(f, cols, k) ==
    IF k > Len(cols) THEN 0
    ELSE IF HasCol(f, cols[k]) /\ \E t \in 1..Len(f.rows) : f.rows[t][cols[k]][1] = "str"
         THEN k
    ELSE TrendRaisesAt(f, cols, k + 1)

\* an exception is logged and `data` is returned
calculate_trends(d, cols, w, padding) ==
    IF IsEmpty(d) THEN Returned(d)
    ELSE LET data_copy == IF HasCol(d, "date") THEN SortByDate(d) ELSE d
         IN  IF TrendRaisesAt(data_copy, cols, 1) # 0 THEN Returned(d)
             ELSE Returned(TrendLoop(data_copy, cols, Len(cols), w, padding))

\* the object `data_copy` refers to when the loop starts: the copy of line
\* 199, or the new object that sort_values returns
TrendsWorking(d) == IF HasCol(d, "date") THEN "new" ELSE Copy("data")

\* the object the call returns
TrendsReturns(d, cols) ==
    LET data_copy == IF HasCol(d, "date") THEN SortByDate(d) ELSE d
    IN  IF IsEmpty(d) \/ TrendRaisesAt(data_copy, cols, 1) # 0 THEN "data"
        ELSE TrendsWorking(d)

\* what the passed object holds after the call: the loop has written into
\* `data_copy` the rounds before the one that raised, or all of them
TrendsAfter(d, cols, w, padding) ==
    IF IsEmpty(d) THEN d
    ELSE LET data_copy == IF HasCol(d, "date") THEN SortByDate(d) ELSE d
             raised == TrendRaisesAt(data_copy, cols, 1)
             rounds == IF raised # 0 THEN raised - 1 ELSE Len(cols)
         IN  After("data", d, TrendsWorking(d),
                   TrendLoop(data_copy, cols, rounds, w, padding))

---------------------------------------------------------------------------
(* Inputs of calculate_trends: a series of one value column, with or       *)
(* without a date column, rows in any order, with zeros and nulls          *)
(* (a rebased column is null where the month has no baseline)              *)

TrendColumn == "kw1_daily"
AbsentColumn == "absent"
TextColumn == "processor_version"      \* the text column that add_metadata writes

TrendValues == {Num(0), Num(1000), Num(2000), NaN}      \* 0, 10, 20, null

Day(i) == <<2023, 1, i>>

Orders(n) == {p \in [1..n -> 1..n] : \A i, j \in 1..n : i # j => p[i] # p[j]}

TrendFrames ==
    UNION { { [cols |-> <<"date", TrendColumn>>,
               rows |-> [i \in 1..n |->
                           [c \in {"date", TrendColumn} |->
                               IF c = "date" THEN Day(p[i]) ELSE v[i]]]] :
                v \in [1..n -> TrendValues], p \in Orders(n) }
            \cup
            { [cols |-> <<TrendColumn>>,
               rows |-> [i \in 1..n |-> [c \in {TrendColumn} |-> v[i]]]] :
                v \in [1..n -> TrendValues] } :
            n \in 0..MaxTrendRows }

ValueColumnLists ==
    { <<TrendColumn>>, <<AbsentColumn, TrendColumn>>, <<AbsentColumn>> }

---------------------------------------------------------------------------
(* The calculate_trends call as a state machine *)

InitTrends ==
    /\ pc = "start"
    /\ daily = EmptyFrame
    /\ monthly = EmptyFrame
    /\ keywords = <<>>
    /\ merged = NoOutcome
    /\ data \in TrendFrames
    /\ value_columns \in ValueColumnLists
    /\ window_size \in 1..MaxWindow
    /\ pad \in BOOLEAN
    /\ trends = NoOutcome
    /\ again_on = "none"
    /\ again = NoOutcome
    /\ NoAnomalyCall
    /\ NoNormalizeCall
    /\ NoAggregateCall
    /\ transform = "calculate_trends"
    /\ NothingPassed
    /\ NoRequest

CalculateTrends ==
    /\ pc = "start"
    /\ transform = "calculate_trends"
    /\ trends' = calculate_trends(data, value_columns, window_size, pad)
    /\ after' = <<TrendsAfter(data, value_columns, window_size, pad)>>
    /\ same_object' = (TrendsReturns(data, value_columns) = "data")
    /\ pc' = "done"
    /\ UNCHANGED <<daily, monthly, keywords, merged>>
    /\ UNCHANGED <<data, value_columns, window_size, pad, again_on, again>>
    /\ UNCHANGED <<anomaly_vars, normalize_vars, aggregate_vars, transform>>
    /\ UNCHANGED request_vars

\* a second call with the same columns and window, on the frame the caller
\* passed to the first call or on the frame the first call returned
CalculateTrendsAgain ==
    /\ pc = "done"
    /\ transform = "calculate_trends"
    /\ \E on \in {"input", "output"} :
         LET passed == IF on = "input" THEN data ELSE trends.frame
         IN  /\ again_on' = on
             /\ again' = calculate_trends(passed, value_columns, window_size, pad)
             /\ after' = <<TrendsAfter(passed, value_columns, window_size, pad)>>
             /\ same_object' = (TrendsReturns(passed, value_columns) = "data")
    /\ pc' = "again"
    /\ UNCHANGED <<daily, monthly, keywords, merged>>
    /\ UNCHANGED <<data, value_columns, window_size, pad, trends>>
    /\ UNCHANGED <<anomaly_vars, normalize_vars, aggregate_vars, transform>>
    /\ UNCHANGED request_vars

NextTrends == CalculateTrends \/ CalculateTrendsAgain

SpecTrends == InitTrends /\ [][NextTrends]_vars

---------------------------------------------------------------------------
(* Properties of calculate_trends *)

TrendOut == trends.frame
Suffix(w) == ToString(w)
MaName(col, w) == col \o "_ma_" \o Suffix(w)
StdName(col, w) == col \o "_std_" \o Suffix(w)
PctName(col) == col \o "_pct_change"
GrowthName(col, w) == col \o "_growth_" \o Suffix(w) \o "d"
VolatilityName(col) == col \o "_volatility"
DirectionName(col) == col \o "_trend_direction"

AlwaysDerived(col, w) ==
    {MaName(col, w), StdName(col, w), PctName(col), VolatilityName(col), DirectionName(col)}
AllDerived(col, w) == AlwaysDerived(col, w) \cup {GrowthName(col, w)}

Finite(c) == c[1] = "num"

\* C8: calculate_trends never lets an arithmetic degeneracy reach its output:
\* for every value column, zeros included, no cell of `{col}_pct_change`,
\* `{col}_growth_{window}d` or `{col}_volatility` is infinite or NaN, and no
\* error is raised.
C8_NoDegenerateCell ==
    (Done /\ ~ IsEmpty(data)) =>
        /\ trends.status = "returned"
        /\ \A n \in 1..Len(value_columns) :
             LET col == value_columns[n] IN
             HasCol(data, col) =>
                \A name \in {PctName(col), GrowthName(col, window_size), VolatilityName(col)} :
                    HasCol(TrendOut, name) =>
                        \A t \in 1..Len(TrendOut.rows) : Finite(TrendOut.rows[t][name])

GrowthOf(a, b) ==
    IF a[1] = "nan" \/ b[1] = "nan" THEN <<"num", 0>>
    ELSE IF b[2] = 0
         THEN (IF a[2] = 0 THEN <<"num", 0>>
               ELSE IF a[2] > 0 THEN <<"inf", 1>> ELSE <<"inf", -1>>)
         ELSE <<"num", RoundRatio((a[2] - b[2]) * 10000, b[2])>>

C11_MovingAverageNoNull ==
    (Done /\ ~ IsEmpty(data)) =>
        \A n \in 1..Len(value_columns) :
            LET col == value_columns[n] IN
            HasCol(data, col) =>
                /\ HasCol(TrendOut, MaName(col, window_size))
                /\ \A t \in 1..Len(TrendOut.rows) :
                     ~ IsNaN(TrendOut.rows[t][MaName(col, window_size)])

\* the rows of the trailing window that ends at row t: the last min(w, t) rows
Trailing(t, w) == {s \in 1..t : s > t - w}

\* the sum of the non-null cells of column col of the output in rows lo..hi
RECURSIVE SumRows(_, _, _)
SumRows(col, lo, hi) ==
    IF lo > hi THEN 0
    ELSE (IF TrendOut.rows[hi][col][1] = "num" THEN TrendOut.rows[hi][col][2] ELSE 0)
         + SumRows(col, lo, hi - 1)

OutputSortedByDate ==
    HasCol(TrendOut, "date") =>
        \A t \in 1..(Len(TrendOut.rows) - 1) :
            DateLess(TrendOut.rows[t]["date"], TrendOut.rows[t + 1]["date"])

\* the float mean of all the cells of the window: null as soon as one is null
MeanOfAll(col, t, w) ==
    IF \E s \in Trailing(t, w) : TrendOut.rows[s][col][1] = "nan" THEN <<"nan", 0>>
    ELSE <<"num", RoundDiv(SumRows(col, t - Cardinality(Trailing(t, w)) + 1, t),
                           Cardinality(Trailing(t, w)))>>

\* the mean of the non-null cells of the window, null when there is none
MeanOfNonNull(col, t, w) ==
    LET some == {s \in Trailing(t, w) : TrendOut.rows[s][col][1] = "num"}
    IN  IF some = {} THEN <<"nan", 0>>
        ELSE <<"num", RoundDiv(SumRows(col, t - Cardinality(Trailing(t, w)) + 1, t),
                               Cardinality(some))>>

\* C12 as claimed: in the date-sorted output, `{col}_ma_{window}` at row t is
\* the arithmetic mean, rounded to 2 decimals, of the last min(window, t+1)
\* values of the column ending at row t (all of them, whatever they hold).
C12_MeanOfLastValues ==
    (Done /\ ~ IsEmpty(data)) =>
        \A n \in 1..Len(value_columns) :
            LET col == value_columns[n] IN
            HasCol(data, col) =>
                /\ OutputSortedByDate
                /\ \A t \in 1..Len(TrendOut.rows) :
                     TrendOut.rows[t][MaName(col, window_size)]
                        = MeanOfAll(col, t, window_size)

\* C12 amended: in the date-sorted output, `{col}_ma_{window}` at row t is the
\* arithmetic mean, rounded to 2 decimals, of the non-null values among the
\* last min(window, t+1) cells of the column ending at row t, and null when
\* all of them are null; so row 0 equals the first cell and a window of 1
\* reproduces the column.
C12_MeanOfNonNullValues ==
    (Done /\ ~ IsEmpty(data)) =>
        \A n \in 1..Len(value_columns) :
            LET col == value_columns[n]
                ma == MaName(col, window_size)
            IN  HasCol(data, col) =>
                /\ OutputSortedByDate
                /\ \A t \in 1..Len(TrendOut.rows) :
                     TrendOut.rows[t][ma] = MeanOfNonNull(col, t, window_size)
                /\ TrendOut.rows[1][ma] = TrendOut.rows[1][col]
                /\ window_size = 1 =>
                     \A t \in 1..Len(TrendOut.rows) :
                        TrendOut.rows[t][ma] = TrendOut.rows[t][col]

\* C12 witness: a window of two rows that holds a null and 10 has the mean 10,
\* and a third row of 20 makes the next mean 15
C12_Witness ==
    /\ Done /\ window_size = 2 /\ value_columns = <<TrendColumn>>
    /\ HasCol(data, "date") /\ data # SortByDate(data)
    /\ Len(TrendOut.rows) = 3
    /\ TrendOut.rows[1][TrendColumn] = NaN
    /\ TrendOut.rows[2][TrendColumn] = Num(1000)
    /\ TrendOut.rows[3][TrendColumn] = Num(2000)
    /\ TrendOut.rows[1][MaName(TrendColumn, 2)] = NaN
    /\ TrendOut.rows[2][MaName(TrendColumn, 2)] = Num(1000)
    /\ TrendOut.rows[3][MaName(TrendColumn, 2)] = Num(1500)

\* round(a / b - 1, 4) in float arithmetic, in ten-thousandths: null when an
\* operand is null and for 0 / 0, an infinity for x / 0
ChangeOf(a, b) ==
    IF a[1] = "nan" \/ b[1] = "nan" THEN <<"nan", 0>>
    ELSE IF b[2] = 0
         THEN (IF a[2] = 0 THEN <<"nan", 0>>
               ELSE IF a[2] > 0 THEN <<"inf", 1>> ELSE <<"inf", -1>>)
         ELSE <<"num", RoundRatio((a[2] - b[2]) * 10000, b[2])>>

NullAsZero(c) == IF c[1] = "nan" THEN <<"num", 0>> ELSE c

\* the last non-null cell of column col of the output at or before row t
RECURSIVE LastValid(_, _)
LastValid(col, t) ==
    IF t = 0 THEN <<"nan", 0>>
    ELSE IF TrendOut.rows[t][col][1] = "num" THEN TrendOut.rows[t][col]
    ELSE LastValid(col, t - 1)

\* the cell the percentage change reads at row t
Observed(col, t) == IF pad THEN LastValid(col, t) ELSE TrendOut.rows[t][col]

\* C13 as claimed: `{col}_pct_change` at the first row (by date) is exactly 0
\* for every input, and at every later row t it is
\* (value[t] - value[t-1]) / value[t-1] rounded to 4 decimals.
C13_PctChangeOfRows ==
    (Done /\ ~ IsEmpty(data)) =>
        \A n \in 1..Len(value_columns) :
            LET col == value_columns[n] IN
            HasCol(data, col) =>
                /\ OutputSortedByDate
                /\ TrendOut.rows[1][PctName(col)] = <<"num", 0>>
                /\ \A t \in 2..Len(TrendOut.rows) :
                     TrendOut.rows[t][PctName(col)]
                        = ChangeOf(TrendOut.rows[t][col], TrendOut.rows[t - 1][col])

\* C13 amended: `{col}_pct_change` at the first row (by date) is exactly 0 for
\* every input, and at every later row t it is
\* (value[t] - value[t-1]) / value[t-1] in float arithmetic, rounded to 4
\* decimals, with a null result (a null operand, or 0 / 0) replaced by 0;
\* where pandas pads nulls (before 3.0), value[t] and value[t-1] are the last
\* non-null values at or before rows t and t-1.
C13_PctChangeNullAsZero ==
    (Done /\ ~ IsEmpty(data)) =>
        \A n \in 1..Len(value_columns) :
            LET col == value_columns[n] IN
            HasCol(data, col) =>
                /\ OutputSortedByDate
                /\ TrendOut.rows[1][PctName(col)] = <<"num", 0>>
                /\ \A t \in 2..Len(TrendOut.rows) :
                     TrendOut.rows[t][PctName(col)]
                        = NullAsZero(ChangeOf(Observed(col, t), Observed(col, t - 1)))

\* C13 witness: 10, 10, 20 unsorted gives the changes 0, 0.0 and 1.0
C13_Witness ==
    /\ Done /\ value_columns = <<TrendColumn>>
    /\ HasCol(data, "date") /\ data # SortByDate(data)
    /\ Len(TrendOut.rows) = 3
    /\ TrendOut.rows[1][TrendColumn] = Num(1000)
    /\ TrendOut.rows[2][TrendColumn] = Num(1000)
    /\ TrendOut.rows[3][TrendColumn] = Num(2000)
    /\ TrendOut.rows[1][PctName(TrendColumn)] = Num(0)
    /\ TrendOut.rows[2][PctName(TrendColumn)] = Num(0)
    /\ TrendOut.rows[3][PctName(TrendColumn)] = Num(10000)

\* C14: `{col}_trend_direction` takes only the values -1, 0 and +1; at row t
\* it is +1 if the moving average at t is strictly greater than at t-1, -1 if
\* strictly less, and 0 if they are equal or either is undefined, so the first
\* row is always 0.
C14_TrendDirection ==
    (Done /\ ~ IsEmpty(data)) =>
        \A n \in 1..Len(value_columns) :
            LET col == value_columns[n]
                ma == MaName(col, window_size)
                dir == DirectionName(col)
            IN  HasCol(data, col) =>
                /\ HasCol(TrendOut, dir)
                /\ TrendOut.rows[1][dir] = 0
                /\ \A t \in 1..Len(TrendOut.rows) : TrendOut.rows[t][dir] \in {-1, 0, 1}
                /\ \A t \in 2..Len(TrendOut.rows) :
                     LET cur == TrendOut.rows[t][ma]
                         prev == TrendOut.rows[t - 1][ma]
                         defined == cur[1] = "num" /\ prev[1] = "num"
                     IN  /\ TrendOut.rows[t][dir] = 1 <=> (defined /\ cur[2] > prev[2])
                         /\ TrendOut.rows[t][dir] = -1 <=> (defined /\ cur[2] < prev[2])
                         /\ TrendOut.rows[t][dir] = 0 <=> (~ defined \/ cur[2] = prev[2])

\* C14 witness: with a window of 2, the column null, 10, 0 has the moving
\* averages null, 10, 5 and the directions 0 (first row), 0 (previous
\* undefined), -1
C14_Witness ==
    /\ Done /\ window_size = 2 /\ value_columns = <<TrendColumn>>
    /\ Len(TrendOut.rows) = 3
    /\ TrendOut.rows[1][MaName(TrendColumn, 2)] = NaN
    /\ TrendOut.rows[2][MaName(TrendColumn, 2)] = Num(1000)
    /\ TrendOut.rows[3][MaName(TrendColumn, 2)] = Num(500)
    /\ TrendOut.rows[1][DirectionName(TrendColumn)] = 0
    /\ TrendOut.rows[2][DirectionName(TrendColumn)] = 0
    /\ TrendOut.rows[3][DirectionName(TrendColumn)] = -1

\* the frame f with its rows in the order q
Permuted(f, q) == [cols |-> f.cols, rows |-> [i \in 1..Len(f.rows) |-> f.rows[q[i]]]]

\* C15: calculate_trends applied to any permutation of a frame's rows (with
\* distinct dates) produces, for each date, the same derived values as when
\* applied to the date-sorted frame.
C15_DateOrderNotRowOrder ==
    (Done /\ ~ IsEmpty(data) /\ HasCol(data, "date")) =>
        LET sorted == calculate_trends(SortByDate(data), value_columns, window_size, pad)
        IN  /\ Range(TrendOut.rows) = Range(sorted.frame.rows)
            /\ \A q \in Orders(Len(data.rows)) :
                 LET other == calculate_trends(Permuted(data, q), value_columns,
                                               window_size, pad)
                 IN  /\ other.status = sorted.status
                     /\ other.frame.cols = sorted.frame.cols
                     /\ Range(other.frame.rows) = Range(sorted.frame.rows)

\* C15 witness: three rows passed latest first got the derived values of their
\* dates, the rise from 10 to 20 on the last date
C15_Witness ==
    /\ Done /\ value_columns = <<TrendColumn>> /\ window_size = 1
    /\ HasCol(data, "date") /\ Len(data.rows) = 3
    /\ \A i \in 1..3 : data.rows[i]["date"] = Day(4 - i)
    /\ data.rows[1][TrendColumn] = Num(2000)
    /\ data.rows[2][TrendColumn] = Num(1000)
    /\ \E t \in 1..3 :
         /\ TrendOut.rows[t]["date"] = Day(3)
         /\ TrendOut.rows[t][TrendColumn] = Num(2000)
         /\ TrendOut.rows[t][PctName(TrendColumn)] = Num(10000)
         /\ TrendOut.rows[t][DirectionName(TrendColumn)] = 1

Repeated == pc = "again"

\* the derived columns of value_columns in frame f, with their values
DerivedOf(f) ==
    LET names == {c \in Range(f.cols) :
                    \E n \in 1..Len(value_columns) :
                        c \in AllDerived(value_columns[n], window_size)}
    IN  [c \in names |-> Column(f, c)]

\* C16: calling calculate_trends twice with the same window on the same
\* already-sorted frame gives identical derived columns both times, and
\* applying it again to its own output with the same columns and window
\* leaves every derived column's values unchanged.
C16_Repeatable ==
    Repeated =>
        /\ (again_on = "input" /\ (HasCol(data, "date") => data = SortByDate(data))) =>
                /\ again.status = trends.status
                /\ DerivedOf(again.frame) = DerivedOf(trends.frame)
        /\ again_on = "output" =>
                /\ again.status = trends.status
                /\ DerivedOf(again.frame) = DerivedOf(trends.frame)

\* C16 witness: a second call on the output of a first one, which had computed
\* a moving average over two rows that differs from the column, found the
\* six derived columns and left them as they were
C16_Witness ==
    /\ Repeated /\ again_on = "output"
    /\ window_size = 2 /\ value_columns = <<TrendColumn>>
    /\ Len(trends.frame.rows) = 3
    /\ \A name \in AllDerived(TrendColumn, 2) : HasCol(trends.frame, name)
    /\ trends.frame.rows[2][MaName(TrendColumn, 2)] # trends.frame.rows[2][TrendColumn]
    /\ again.frame = trends.frame

---------------------------------------------------------------------------
(* Binary floating point: a float64 is <<m, e>>, worth m * 2^e, with m a     *)
(* sequence of 53 binary digits, the most significant first and equal to 1. *)
(* Only what the mean of a column of equal values needs is computed: the    *)
(* conversion of a decimal, the sum and the division by a count, each        *)
(* rounded to the nearest float64, ties to even.                            *)

Mantissa == 53

\* the binary digits of the natural number k (none for 0)
RECURSIVE Bits(_)
Bits(k) == IF k = 0 THEN <<>> ELSE Append(Bits(k \div 2), k % 2)

Zeros(k) == [i \in 1..k |-> 0]

\* the digits without their leading zeros
RECURSIVE Strip(_)
Strip(b) == IF b # <<>> /\ b[1] = 0 THEN Strip(Tail(b)) ELSE b

\* long division by d of the digits lo..hi of b, r being the remainder left
\* by the digits before them: <<quotient digits, remainder>>
RECURSIVE DivBits(_, _, _, _, _)
DivBits(b, d, lo, hi, r) ==
    IF lo > hi THEN << <<>>, r >>
    ELSE IF lo = hi
         THEN LET s == 2 * r + b[lo]
              IN  IF s >= d THEN << <<1>>, s - d >> ELSE << <<0>>, s >>
    ELSE LET mid == (lo + hi) \div 2
             left == DivBits(b, d, lo, mid, r)
             right == DivBits(b, d, mid + 1, hi, left[2])
         IN  <<left[1] \o right[1], right[2]>>

\* the sum of the digits lo..hi of a and b (of one length), c being the carry
\* of the digits after them: <<digits, carry>>
RECURSIVE AddFrom(_, _, _, _, _)
AddFrom(a, b, lo, hi, c) ==
    IF lo > hi THEN << <<>>, c >>
    ELSE IF lo = hi
         THEN LET s == a[lo] + b[lo] + c IN << <<s % 2>>, s \div 2 >>
    ELSE LET mid == (lo + hi) \div 2
             right == AddFrom(a, b, mid + 1, hi, c)
             left == IF right[2] = 1 THEN AddFrom(a, b, lo, mid, 1)
                     ELSE AddFrom(a, b, lo, mid, 0)
         IN  <<left[1] \o right[1], left[2]>>

AddBits(a, b) ==
    LET n == IF Len(a) > Len(b) THEN Len(a) ELSE Len(b)
        r == AddFrom(Zeros(n - Len(a)) \o a, Zeros(n - Len(b)) \o b, 1, n, 0)
    IN  IF r[2] = 1 THEN <<1>> \o r[1] ELSE r[1]

\* the float64 nearest to b * 2^e (b without leading zeros, not empty);
\* inexact tells that digits below the last one of b were cut off
RoundToFloat(b, e, inexact) ==
    IF Len(b) <= Mantissa THEN <<b \o Zeros(Mantissa - Len(b)), e - (Mantissa - Len(b))>>
    ELSE LET kept == SubSeq(b, 1, Mantissa)
             more == inexact \/ \E i \in (Mantissa + 2)..Len(b) : b[i] = 1
             up == b[Mantissa + 1] = 1 /\ (more \/ kept[Mantissa] = 1)
             m == IF up THEN AddBits(kept, <<1>>) ELSE kept
             shift == Len(b) - Mantissa
         IN  IF Len(m) > Mantissa THEN <<SubSeq(m, 1, Mantissa), e + shift + 1>>
             ELSE <<m, e + shift>>

\* the float64 of the decimal h / 100, h > 0
FromHundredths(h) ==
    LET b == Bits(h) \o Zeros(64)
        q == DivBits(b, 100, 1, Len(b), 0)
    IN  RoundToFloat(Strip(q[1]), -64, q[2] # 0)

\* hi + lo for two positive float64, the exponent of hi not below that of lo
AddAligned(hi, lo) ==
    RoundToFloat(AddBits(hi[1] \o Zeros(hi[2] - lo[2]), lo[1]), lo[2], FALSE)

\* x + y for two positive float64
FloatAdd(x, y) == IF x[2] >= y[2] THEN AddAligned(x, y) ELSE AddAligned(y, x)

\* x / n for a positive float64 and a count n below 2^5
FloatDiv(x, n) ==
    LET b == x[1] \o Zeros(8)
        q == DivBits(b, n, 1, Len(b), 0)
    IN  RoundToFloat(Strip(q[1]), x[2] - 8, q[2] # 0)

\* the sum of n values x, added one after the other
RECURSIVE FloatSum(_, _)
FloatSum(x, n) == IF n = 1 THEN x ELSE FloatAdd(FloatSum(x, n - 1), x)

\* x < y for two positive float64
FloatLess(x, y) ==
    \/ x[2] < y[2]
    \/ /\ x[2] = y[2]
       /\ \E i \in 1..Mantissa :
             /\ x[1][i] < y[1][i]
             /\ \A j \in 1..(i - 1) : x[1][j] = y[1][j]

\* values.mean() of a column of n values h / 100, n below 8, is that value
\* again: the sum is taken one value after the other and divided by n
MeanIsExact(h, n) ==
    \/ h = 0
    \/ LET x == FromHundredths(IF h < 0 THEN -h ELSE h)
       IN  FloatDiv(FloatSum(x, n), n) = x

\* values.mean() of such a column is above the value (of h > 0)
MeanIsAbove(h, n) ==
    LET x == FromHundredths(h)
    IN  FloatLess(x, FloatDiv(FloatSum(x, n), n))

---------------------------------------------------------------------------
(* DataProcessor.detect_anomalies *)
(* A threshold is held in tenths (15 is 1.5); an indicator cell and a       *)
(* `total_anomalies` cell are plain integers.                               *)

NonNull(values) == SelectSeq(values, IsNum)

\* cells sorted by value ascending
RECURSIVE InsertByValue(_, _)
InsertByValue(sorted, c) ==
    IF sorted = <<>> THEN <<c>>
    ELSE IF Val(c) < Val(sorted[Len(sorted)])
         THEN Append(InsertByValue(SubSeq(sorted, 1, Len(sorted) - 1), c),
                     sorted[Len(sorted)])
         ELSE Append(sorted, c)

RECURSIVE SortByValue(_)
SortByValue(cells) ==
    IF cells = <<>> THEN <<>>
    ELSE InsertByValue(SortByValue(SubSeq(cells, 1, Len(cells) - 1)), cells[Len(cells)])

\* 4 * values.quantile(quarters / 4): the non-null values sorted, then a
\* linear interpolation at position (n - 1) * quarters / 4 between the two
\* closest ranks; null for a column without a value
Quantile(values, quarters) ==
    LET xs == SortByValue(NonNull(values))
        n == Len(xs)
        pos == (n - 1) * quarters
        lo == pos \div 4 + 1
        hi == IF lo < n THEN lo + 1 ELSE lo
    IN  IF n = 0 THEN NaN
        ELSE Num(4 * Val(xs[lo]) + (pos % 4) * (Val(xs[hi]) - Val(xs[lo])))

\* mutant: the fences are set around the median instead of the quartiles
IqrIndicator_AroundMedian(values, thr) ==
    LET q1 == Quantile(values, 1)
        q2 == Quantile(values, 2)
        q3 == Quantile(values, 3)
    IN  [t \in 1..Len(values) |->
            IF IsNaN(values[t]) \/ IsNaN(q1) THEN 0
            ELSE LET iqr == Val(q3) - Val(q1)
                     lower_bound == 10 * Val(q2) - thr * iqr
                     upper_bound == 10 * Val(q2) + thr * iqr
                 IN  IF 40 * Val(values[t]) < lower_bound
                        \/ 40 * Val(values[t]) > upper_bound THEN 1 ELSE 0]

\* ((values < lower_bound) | (values > upper_bound)).astype(int) with
\* lower_bound = q1 - threshold * iqr and upper_bound = q3 + threshold * iqr;
\* a comparison with a null is false
IqrIndicator(values, thr) ==
    LET q1 == Quantile(values, 1)
        q3 == Quantile(values, 3)
    IN  [t \in 1..Len(values) |->
            IF IsNaN(values[t]) \/ IsNaN(q1) THEN 0
            ELSE LET iqr == Val(q3) - Val(q1)
                     lower_bound == 10 * Val(q1) - thr * iqr
                     upper_bound == 10 * Val(q3) + thr * iqr
                 IN  IF 40 * Val(values[t]) < lower_bound
                        \/ 40 * Val(values[t]) > upper_bound THEN 1 ELSE 0]

RECURSIVE GCDAll(_, _)
GCDAll(cells, k) == IF k = 0 THEN 0 ELSE GCD(GCDAll(cells, k - 1), Val(cells[k]))

\* the z-score branch: with n values of sum S and n * (n - 1) * variance =
\* Spread, |v - mean| / std > threshold is
\* 100 * (n * v - S)^2 * (n - 1) > threshold^2 * Spread * n (threshold in
\* tenths).  The values are divided by their greatest common divisor first,
\* which leaves a z-score as it is.  A standard deviation that is 0 or null
\* (fewer than two values) takes the else branch: the column is 0.
\* Equal values have the standard deviation 0 only when their float mean is
\* that value; when it is not, every value lies the same distance d from the
\* mean, the standard deviation is d * sqrt(n / (n - 1)) > 0 and every
\* z-score is sqrt((n - 1) / n).
ZScoreIndicator(values, thr) ==
    LET known == NonNull(values)
        n == Len(known)
        g == GCDAll(known, n)
        unit == IF g = 0 THEN 1 ELSE g
        cells == [i \in 1..n |-> Num(Val(known[i]) \div unit)]
        sm == SumVals(cells, n)
        sp == Spread(cells)
        rounded == n >= 2 /\ sp = 0 /\ ~ MeanIsExact(Val(known[1]), n)
    IN  [t \in 1..Len(values) |->
            IF IsNaN(values[t]) THEN 0
            ELSE IF rounded THEN (IF 100 * (n - 1) > thr * thr * n THEN 1 ELSE 0)
            ELSE IF n < 2 \/ sp = 0 THEN 0
            ELSE LET dev == n * (Val(values[t]) \div unit) - sm
                 IN  IF 100 * dev * dev * (n - 1) > thr * thr * sp * n THEN 1 ELSE 0]

\* the body of the `for col in value_columns` loop for a column of the frame
AnomalyColumn(f, col, m, thr) ==
    LET values == Column(f, col)
    IN  SetCol(f, col \o "_anomaly",
               IF m = "iqr" THEN IqrIndicator(values, thr)
               ELSE IF m = "zscore" THEN ZScoreIndicator(values, thr)
               ELSE [t \in 1..Len(values) |-> 0])

RECURSIVE AnomalyLoop(_, _, _, _, _)
AnomalyLoop(f, cols, k, m, thr) ==
    IF k = 0 THEN f
    ELSE LET g == AnomalyLoop(f, cols, k - 1, m, thr)
         IN  IF HasCol(g, cols[k]) THEN AnomalyColumn(g, cols[k], m, thr) ELSE g

\* col.endswith(suffix)
EndsWith(col, suffix) ==
    /\ Len(col) >= Len(suffix)
    /\ SubSeq(col, Len(col) - Len(suffix) + 1, Len(col)) = suffix

RECURSIVE SumRow(_, _, _)
SumRow(row, cols, k) == IF k = 0 THEN 0 ELSE SumRow(row, cols, k - 1) + row[cols[k]]

\* mutant: a total that the frame already has is kept
WithTotal_KeepExisting(f) ==
    LET anomaly_columns == SelectSeq(f.cols, LAMBDA c : EndsWith(c, "_anomaly"))
    IN  IF anomaly_columns = <<>> \/ HasCol(f, "total_anomalies") THEN f
        ELSE SetCol(f, "total_anomalies",
                    [t \in 1..Len(f.rows) |->
                        SumRow(f.rows[t], anomaly_columns, Len(anomaly_columns))])

\* data_copy['total_anomalies'] = data_copy[anomaly_columns].sum(axis=1),
\* when the frame has a column that ends with `_anomaly`
WithTotal(f) ==
    LET anomaly_columns == SelectSeq(f.cols, LAMBDA c : EndsWith(c, "_anomaly"))
    IN  IF anomaly_columns = <<>> THEN f
        ELSE SetCol(f, "total_anomalies",
                    [t \in 1..Len(f.rows) |->
                        SumRow(f.rows[t], anomaly_columns, Len(anomaly_columns))])

\* the first round of the loop, from round k on, that raises (0 when none
\* does): a text column has no quantile and no mean
RECURSIVE AnomalyRaisesAt(_, _, _, _)
AnomalyRaisesAt(f, cols, k, m) ==
    IF k > Len(cols) THEN 0
    ELSE IF /\ HasCol(f, cols[k]) /\ m \in {"iqr", "zscore"}
            /\ \E t \in 1..Len(f.rows) : f.rows[t][cols[k]][1] = "str"
         THEN k
    ELSE AnomalyRaisesAt(f, cols, k + 1, m)

\* an exception is logged and `data` is returned
detect_anomalies(d, cols, m, thr) ==
    IF IsEmpty(d) THEN Returned(d)
    ELSE IF AnomalyRaisesAt(d, cols, 1, m) # 0 THEN Returned(d)
    ELSE Returned(WithTotal(AnomalyLoop(d, cols, Len(cols), m, thr)))

\* the object `data_copy` refers to: the copy of line 274
AnomaliesWorking == Copy("data")

\* the object the call returns
AnomaliesReturns(d, cols, m) ==
    IF IsEmpty(d) \/ AnomalyRaisesAt(d, cols, 1, m) # 0 THEN "data"
    ELSE AnomaliesWorking

\* what the passed object holds after the call
AnomaliesAfter(d, cols, m, thr) ==
    IF IsEmpty(d) THEN d
    ELSE LET raised == AnomalyRaisesAt(d, cols, 1, m)
         IN  After("data", d, AnomaliesWorking,
                   IF raised # 0 THEN AnomalyLoop(d, cols, raised - 1, m, thr)
                   ELSE WithTotal(AnomalyLoop(d, cols, Len(cols), m, thr)))

---------------------------------------------------------------------------
(* Inputs of detect_anomalies: one or two value columns, with nulls, a      *)
(* large value among small ones, the series 1, 2, 3, 4, 5, 100, and columns *)
(* that hold 0.1 in every row                                               *)

MaxAnomalyRows == 3
MaxCalls == 2

SecondColumn == "kw2_daily"

AnomalyValues == {Num(100), Num(10000), NaN}      \* 1, 100, null

ConstantValue == Num(10)                           \* 0.1

ExampleSeries == <<Num(100), Num(200), Num(300), Num(400), Num(500), Num(10000)>>

\* the second column, where there is one, holds the first one in reverse
AnomalyFrames ==
    UNION { { [cols |-> <<TrendColumn>>,
               rows |-> [i \in 1..n |-> [c \in {TrendColumn} |-> v[i]]]] :
                v \in [1..n -> AnomalyValues] }
            \cup
            { [cols |-> <<TrendColumn, SecondColumn>>,
               rows |-> [i \in 1..n |->
                           [c \in {TrendColumn, SecondColumn} |->
                               IF c = TrendColumn THEN v[i] ELSE v[n + 1 - i]]]] :
                v \in [1..n -> AnomalyValues] } :
            n \in 0..MaxAnomalyRows }
    \cup
    { [cols |-> <<TrendColumn>>,
       rows |-> [i \in 1..Len(ExampleSeries) |->
                   [c \in {TrendColumn} |-> ExampleSeries[i]]]] }
    \cup
    { [cols |-> <<TrendColumn>>,
       rows |-> [i \in 1..n |-> [c \in {TrendColumn} |-> ConstantValue]]] :
         n \in 1..MaxAnomalyRows }

AnomalyColumnLists ==
    { <<TrendColumn>>, <<AbsentColumn, SecondColumn>>, <<TrendColumn, TextColumn>> }

Methods == {"iqr", "zscore", "isolation"}

Thresholds == {5, 15}                              \* 0.5 and 1.5

---------------------------------------------------------------------------
(* A caller that feeds each detect_anomalies call the frame the previous    *)
(* call returned                                                           *)

InitAnomalies ==
    /\ pc = "start"
    /\ daily = EmptyFrame
    /\ monthly = EmptyFrame
    /\ keywords = <<>>
    /\ merged = NoOutcome
    /\ data = EmptyFrame
    /\ value_columns = <<>>
    /\ window_size = 1
    /\ pad = FALSE
    /\ trends = NoOutcome
    /\ again_on = "none"
    /\ again = NoOutcome
    /\ series \in AnomalyFrames
    /\ columns = <<>>
    /\ method = "iqr"
    /\ threshold = 15
    /\ detected = NoOutcome
    /\ calls = 0
    /\ NoNormalizeCall
    /\ NoAggregateCall
    /\ transform = "detect_anomalies"
    /\ NothingPassed
    /\ NoRequest

DetectAnomalies ==
    /\ calls < MaxCalls
    /\ transform = "detect_anomalies"
    /\ \E cols \in AnomalyColumnLists, m \in Methods, thr \in Thresholds :
         LET fed == IF calls = 0 THEN series ELSE detected.frame
         IN  /\ series' = fed
             /\ columns' = cols
             /\ method' = m
             /\ threshold' = thr
             /\ detected' = detect_anomalies(fed, cols, m, thr)
             /\ after' = <<AnomaliesAfter(fed, cols, m, thr)>>
             /\ same_object' = (AnomaliesReturns(fed, cols, m) = "data")
    /\ calls' = calls + 1
    /\ pc' = "done"
    /\ UNCHANGED <<rebase_vars, trend_vars, normalize_vars, aggregate_vars, transform>>
    /\ UNCHANGED request_vars

NextAnomalies == DetectAnomalies

SpecAnomalies == InitAnomalies /\ [][NextAnomalies]_vars

---------------------------------------------------------------------------
(* Properties of detect_anomalies *)

Detected == calls > 0
AnomalyOut == detected.frame
AnomalyName(col) == col \o "_anomaly"

\* C18: detect_anomalies called with a method name other than `iqr` or
\* `zscore` fails with a hard error; it never returns a frame whose anomaly
\* columns were filled by a silent default.
C18_UnknownMethodRaises ==
    (Detected /\ method \notin {"iqr", "zscore"} /\ ~ IsEmpty(series)) =>
        detected.status = "raised"


\* the indicator columns of the returned frame
IndicatorColumns ==
    {AnomalyName(c) : c \in {TrendColumn, SecondColumn, AbsentColumn}}
        \cap Range(AnomalyOut.cols)

\* C19: after any sequence of detect_anomalies calls on a frame, each call fed
\* the previous call's output, every `{col}_anomaly` cell is 0 or 1 and
\* `total_anomalies` in each row equals the sum of all `{col}_anomaly` columns
\* present in that row's frame, including those added by earlier calls.
C19_TotalOfAllIndicators ==
    Detected =>
        /\ \A c \in Range(series.cols) : HasCol(AnomalyOut, c)
        /\ \A t \in 1..Len(AnomalyOut.rows) :
              \A c \in IndicatorColumns : AnomalyOut.rows[t][c] \in {0, 1}
        /\ IndicatorColumns # {} =>
              /\ HasCol(AnomalyOut, "total_anomalies")
              /\ \A t \in 1..Len(AnomalyOut.rows) :
                    AnomalyOut.rows[t]["total_anomalies"]
                        = Cardinality({c \in IndicatorColumns : AnomalyOut.rows[t][c] = 1})

\* C19 witness: a second call, on another column than the first, returned a
\* row where both indicators are set and the total, 1 before the call, is 2
C19_Witness ==
    /\ calls = 2
    /\ IndicatorColumns = {AnomalyName(TrendColumn), AnomalyName(SecondColumn)}
    /\ columns = <<AbsentColumn, SecondColumn>>
    /\ \E t \in 1..Len(AnomalyOut.rows) :
         /\ series.rows[t]["total_anomalies"] = 1
         /\ AnomalyOut.rows[t][AnomalyName(TrendColumn)] = 1
         /\ AnomalyOut.rows[t][AnomalyName(SecondColumn)] = 1
         /\ AnomalyOut.rows[t]["total_anomalies"] = 2


\* the value column col of the frame given to the latest call
Given(col) == Column(series, col)

\* the k-th smallest of the non-null values of column col (k from 1)
OrderStatistic(col, k) ==
    LET known == {t \in 1..Len(series.rows) : Given(col)[t][1] = "num"}
    IN  CHOOSE v \in {Given(col)[t][2] : t \in known} :
            /\ Cardinality({t \in known : Given(col)[t][2] < v}) < k
            /\ Cardinality({t \in known : Given(col)[t][2] <= v}) >= k

\* four times the quantile of order quarters / 4 of the whole column: with n
\* non-null values and h = (n - 1) * quarters / 4, the value at rank floor(h)
\* plus the fraction of h times the step to the next rank (ranks from 0)
QuartileTimes4(col, quarters) ==
    LET n == Cardinality({t \in 1..Len(series.rows) : Given(col)[t][1] = "num"})
        h4 == (n - 1) * quarters
        below == OrderStatistic(col, h4 \div 4 + 1)
        above == IF h4 % 4 = 0 THEN below ELSE OrderStatistic(col, h4 \div 4 + 2)
    IN  4 * below + (h4 % 4) * (above - below)

\* value v (hundredths) lies outside [Q1 - thr * IQR, Q3 + thr * IQR], all
\* scaled by 40 (thr in tenths)
OutsideFences(col, v, thr) ==
    LET q1 == QuartileTimes4(col, 1)
        q3 == QuartileTimes4(col, 3)
    IN  \/ 40 * v < 10 * q1 - thr * (q3 - q1)
        \/ 40 * v > 10 * q3 + thr * (q3 - q1)

\* C20: IQR anomaly detection computes Q1, Q3 and IQR over the entire column
\* and sets `{col}_anomaly` to 1 exactly for the rows whose value is below
\* Q1 - threshold*IQR or above Q3 + threshold*IQR, and to 0 for all others;
\* with threshold 1.5 on [1,2,3,4,5,100] only the value 100 is flagged.
C20_IqrFences ==
    (Detected /\ method = "iqr" /\ ~ IsEmpty(series)) =>
        \A n \in 1..Len(columns) :
            LET col == columns[n] IN
            HasCol(series, col) =>
                /\ HasCol(AnomalyOut, AnomalyName(col))
                /\ \A t \in 1..Len(AnomalyOut.rows) :
                     /\ AnomalyOut.rows[t][col] = series.rows[t][col]
                     /\ AnomalyOut.rows[t][AnomalyName(col)] =
                           IF /\ series.rows[t][col][1] = "num"
                              /\ OutsideFences(col, series.rows[t][col][2], threshold)
                           THEN 1 ELSE 0
                /\ (Given(col) = ExampleSeries /\ threshold = 15) =>
                     \A t \in 1..6 :
                        AnomalyOut.rows[t][AnomalyName(col)] = IF t = 6 THEN 1 ELSE 0

\* C20 witness: the series 1, 2, 3, 4, 5, 100 with threshold 1.5 has the
\* quartiles 2.25 and 4.75, and only its last row is flagged
C20_Witness ==
    /\ calls = 1 /\ method = "iqr" /\ threshold = 15 /\ columns = <<TrendColumn>>
    /\ Given(TrendColumn) = ExampleSeries
    /\ QuartileTimes4(TrendColumn, 1) = 900
    /\ QuartileTimes4(TrendColumn, 3) = 1900
    /\ Column(AnomalyOut, AnomalyName(TrendColumn)) = <<0, 0, 0, 0, 0, 1>>
    /\ Column(AnomalyOut, "total_anomalies") = <<0, 0, 0, 0, 0, 1>>

---------------------------------------------------------------------------
(* DataProcessor.normalize_data *)
(* A normalized cell is not rounded.  <<"ratio", <<n, d>>>> is the          *)
(* fraction n / d in lowest terms (d > 0); <<"root", <<s, n, d>>>> is       *)
(* s * sqrt(n / d) with s the sign and n / d in lowest terms.  A text cell  *)
(* is <<"str", k>>; a column holds either text or numbers and nulls.        *)

Abs(x) == IF x < 0 THEN -x ELSE x

Ratio(n, d) ==
    LET g == GCD(Abs(n), d)
    IN  <<"ratio", <<n \div g, d \div g>>>>

\* s * sqrt(n / d) for n >= 0, d > 0
Root(s, n, d) ==
    LET g == GCD(n, d)
    IN  IF n = 0 THEN Ratio(0, 1) ELSE <<"root", <<s, n \div g, d \div g>>>>

Text(k) == <<"str", k>>
IsText(c) == c[1] = "str"
HasText(values) == \E t \in 1..Len(values) : IsText(values[t])

RECURSIVE MinVal(_, _)
MinVal(cells, k) ==
    IF k = 1 THEN Val(cells[1])
    ELSE LET m == MinVal(cells, k - 1) IN IF Val(cells[k]) < m THEN Val(cells[k]) ELSE m

RECURSIVE MaxVal(_, _)
MaxVal(cells, k) ==
    IF k = 1 THEN Val(cells[1])
    ELSE LET m == MaxVal(cells, k - 1) IN IF Val(cells[k]) > m THEN Val(cells[k]) ELSE m

\* the statement of the loop body raises: arithmetic on a text column
\* (min and max of a text column exist, the subtraction does not; a mean or
\* a median of text does not exist)
NormalizeRaises(values, m) ==
    /\ HasText(values)
    /\ \/ m \in {"zscore", "robust"}
       \/ m = "minmax" /\ \E s, t \in 1..Len(values) : values[s] # values[t]

\* (values - min_val) / (max_val - min_val) if max_val != min_val else 0;
\* min and max skip nulls, and a null differs from itself; the 0 of the else
\* branch is written into every row, a row without a value too
MinMax(values) ==
    LET known == NonNull(values)
        n == Len(known)
    IN  [t \in 1..Len(values) |->
            IF HasText(values) THEN Ratio(0, 1)
            ELSE IF n = 0 THEN NaN
            ELSE IF MaxVal(known, n) = MinVal(known, n) THEN Ratio(0, 1)
            ELSE IF IsNaN(values[t]) THEN NaN
            ELSE Ratio(Val(values[t]) - MinVal(known, n),
                       MaxVal(known, n) - MinVal(known, n))]

\* (values - mean_val) / std_val if std_val != 0 else 0; the sample standard
\* deviation of fewer than two values is null, and a null differs from 0.
\* (v - mean) / std is the signed root of
\* (n * v - S)^2 * (n - 1) / (n * Spread); the values are divided by their
\* greatest common divisor first, which leaves the quotient as it is.
\* Equal values whose float mean is not that value have a standard deviation
\* above 0, and each of them is normalized to sqrt((n - 1) / n), with the
\* sign of value - mean.
ZScore(values) ==
    LET known == NonNull(values)
        n == Len(known)
        g == GCDAll(known, n)
        unit == IF g = 0 THEN 1 ELSE g
        cells == [i \in 1..n |-> Num(Val(known[i]) \div unit)]
        sm == SumVals(cells, n)
        sp == Spread(cells)
        rounded == n >= 2 /\ sp = 0 /\ ~ MeanIsExact(Val(known[1]), n)
    IN  [t \in 1..Len(values) |->
            IF n < 2 THEN NaN
            ELSE IF rounded
                 THEN IF IsNaN(values[t]) THEN NaN
                      ELSE Root(IF MeanIsAbove(Val(known[1]), n) THEN -1 ELSE 1, n - 1, n)
            ELSE IF sp = 0 THEN Ratio(0, 1)
            ELSE IF IsNaN(values[t]) THEN NaN
            ELSE LET dev == n * (Val(values[t]) \div unit) - sm
                 IN  Root(IF dev < 0 THEN -1 ELSE 1, dev * dev * (n - 1), n * sp)]

\* (values - median_val) / iqr if iqr != 0 else 0
Robust(values) ==
    LET median_val == Quantile(values, 2)
        q1 == Quantile(values, 1)
        q3 == Quantile(values, 3)
    IN  [t \in 1..Len(values) |->
            IF IsNaN(q1) THEN NaN
            ELSE IF Val(q3) = Val(q1) THEN Ratio(0, 1)
            ELSE IF IsNaN(values[t]) THEN NaN
            ELSE Ratio(4 * Val(values[t]) - Val(median_val), Val(q3) - Val(q1))]

\* the body of the `for col in columns` loop for a column of the frame; an
\* unknown method is logged and writes nothing
NormalizeColumn(f, col, m) ==
    LET values == Column(f, col)
    IN  IF m = "minmax" THEN SetCol(f, col \o "_normalized", MinMax(values))
        ELSE IF m = "zscore" THEN SetCol(f, col \o "_normalized", ZScore(values))
        ELSE IF m = "robust" THEN SetCol(f, col \o "_normalized", Robust(values))
        ELSE f

\* the frame after the first k rounds of the loop
RECURSIVE NormalizeLoop(_, _, _, _)
NormalizeLoop(f, cols, k, m) ==
    IF k = 0 THEN f
    ELSE LET g == NormalizeLoop(f, cols, k - 1, m)
         IN  IF HasCol(g, cols[k]) THEN NormalizeColumn(g, cols[k], m) ELSE g

\* the first round of the loop that raises, 0 when none does
RECURSIVE NormalizeRaisesAt(_, _, _, _)
NormalizeRaisesAt(f, cols, k, m) ==
    IF k > Len(cols) THEN 0
    ELSE LET g == NormalizeLoop(f, cols, k - 1, m)
         IN  IF HasCol(g, cols[k]) /\ NormalizeRaises(Column(g, cols[k]), m) THEN k
             ELSE NormalizeRaisesAt(f, cols, k + 1, m)

\* columns=None: the numeric columns whose name does not end with
\* `_monthly`, `_year` or `_month`
NumericColumns(f) ==
    SelectSeq(f.cols, LAMBDA c :
        /\ c # "date"
        /\ \A t \in 1..Len(f.rows) : ~ IsText(f.rows[t][c])
        /\ ~ EndsWith(c, "_monthly") /\ ~ EndsWith(c, "_year") /\ ~ EndsWith(c, "_month"))

None == <<"None">>

normalize_data(d, m, cols) ==
    IF IsEmpty(d) THEN Returned(d)
    ELSE LET chosen == IF cols = None THEN NumericColumns(d) ELSE cols
         IN  IF NormalizeRaisesAt(d, chosen, 1, m) # 0 THEN Returned(d)
             ELSE Returned(NormalizeLoop(d, chosen, Len(chosen), m))

\* the object `data_copy` refers to: the copy of line 124
NormalizeWorking == Copy("data")

\* the object the call returns
NormalizeReturns(d, m, cols) ==
    LET chosen == IF cols = None THEN NumericColumns(d) ELSE cols
    IN  IF IsEmpty(d) \/ NormalizeRaisesAt(d, chosen, 1, m) # 0 THEN "data"
        ELSE NormalizeWorking

\* what the passed object holds after the call: the loop has written into
\* `data_copy` the rounds before the one that raised, or all of them
NormalizeAfter(d, m, cols) ==
    IF IsEmpty(d) THEN d
    ELSE LET chosen == IF cols = None THEN NumericColumns(d) ELSE cols
             raised == NormalizeRaisesAt(d, chosen, 1, m)
             rounds == IF raised # 0 THEN raised - 1 ELSE Len(chosen)
         IN  After("data", d, NormalizeWorking, NormalizeLoop(d, chosen, rounds, m))

---------------------------------------------------------------------------
(* Inputs of normalize_data: the frames of detect_anomalies, with or        *)
(* without the text column that add_metadata writes                         *)

WithVersion(f) == SetCol(f, TextColumn, [t \in 1..Len(f.rows) |-> Text(1)])

NormalizeFrames ==
    AnomalyFrames \cup {WithVersion(f) : f \in {g \in AnomalyFrames : ~ IsEmpty(g)}}

NormalizeMethods == {"minmax", "zscore", "robust", "maxabs"}

NormalizeColumnLists ==
    { None, <<TrendColumn>>, <<AbsentColumn, TrendColumn>>, <<TrendColumn, TextColumn>> }

---------------------------------------------------------------------------
(* The normalize_data call as a state machine *)

InitNormalize ==
    /\ pc = "start"
    /\ NoRebaseCall
    /\ NoTrendsCall
    /\ NoAnomalyCall
    /\ to_normalize \in NormalizeFrames
    /\ norm_method \in NormalizeMethods
    /\ norm_columns \in NormalizeColumnLists
    /\ normalized = NoOutcome
    /\ NoAggregateCall
    /\ transform = "normalize_data"
    /\ NothingPassed
    /\ NoRequest

Normalize ==
    /\ pc = "start"
    /\ transform = "normalize_data"
    /\ normalized' = normalize_data(to_normalize, norm_method, norm_columns)
    /\ after' = <<NormalizeAfter(to_normalize, norm_method, norm_columns)>>
    /\ same_object' = (NormalizeReturns(to_normalize, norm_method, norm_columns) = "data")
    /\ pc' = "done"
    /\ UNCHANGED <<to_normalize, norm_method, norm_columns>>
    /\ UNCHANGED <<rebase_vars, trend_vars, anomaly_vars, aggregate_vars, transform>>
    /\ UNCHANGED request_vars

NextNormalize == Normalize

SpecNormalize == InitNormalize /\ [][NextNormalize]_vars
---------------------------------------------------------------------------
(* DataProcessor.aggregate_data *)
(* agg_functions is a dictionary from a column to a list of reducer names,  *)
(* held as the sequence of its <<column, reducers>> entries.  A mean is a   *)
(* <<"ratio", ..>> cell and a standard deviation a <<"root", ..>> cell, in  *)
(* hundredths and not rounded.  A group key cell is a plain integer.        *)

NoAggFunctions == << <<"None", <<>>>> >>                \* agg_functions=None

Reducers == <<"mean", "sum", "min", "max", "std">>

\* {col: ['mean', 'sum', 'min', 'max', 'std'] for col in value_columns}
DefaultAggFunctions(value_cols) ==
    [i \in 1..Len(value_cols) |-> <<value_cols[i], Reducers>>]

\* the key of a row: its cells in the group columns
KeyOf(row, group_cols) == [i \in 1..Len(group_cols) |-> row[group_cols[i]]]

RECURSIVE KeyLess(_, _, _)
KeyLess(a, b, i) ==
    IF i > Len(a) THEN FALSE
    ELSE IF a[i] # b[i] THEN a[i] < b[i]
    ELSE KeyLess(a, b, i + 1)

\* the distinct keys in ascending order
RECURSIVE SortedKeys(_)
SortedKeys(keys) ==
    IF keys = {} THEN <<>>
    ELSE LET least == CHOOSE k \in keys : \A other \in keys : ~ KeyLess(other, k, 1)
         IN  <<least>> \o SortedKeys(keys \ {least})

\* one reducer over the cells of a group; nulls are skipped
Reduce(reducer, cells) ==
    LET known == NonNull(cells)
        n == Len(known)
    IN  IF reducer = "sum" THEN Num(SumVals(known, n))
        ELSE IF n = 0 THEN NaN
        ELSE IF reducer = "mean" THEN Ratio(SumVals(known, n), n)
        ELSE IF reducer = "min" THEN Num(MinVal(known, n))
        ELSE IF reducer = "max" THEN Num(MaxVal(known, n))
        ELSE IF n < 2 THEN NaN
        ELSE Root(1, Spread(known), n * (n - 1))

\* '_'.join((column, reducer)).strip()
FlatName(col, reducer) == col \o "_" \o reducer

\* the flattened (column, reducer) pairs, in the order of the dictionary
RECURSIVE FlatPairs(_, _)
FlatPairs(aggs, k) ==
    IF k = 0 THEN <<>>
    ELSE FlatPairs(aggs, k - 1)
         \o [j \in 1..Len(aggs[k][2]) |-> <<aggs[k][1], aggs[k][2][j]>>]

\* data.groupby(valid_groupby)[valid_value_cols].agg(agg_functions), the
\* column names flattened, then reset_index()
Aggregated(d, group_cols, aggs) ==
    LET keys == SortedKeys({KeyOf(d.rows[t], group_cols) : t \in 1..Len(d.rows)})
        pairs == FlatPairs(aggs, Len(aggs))
        names == [j \in 1..Len(pairs) |-> FlatName(pairs[j][1], pairs[j][2])]
        cols == group_cols \o names
        Group(key) == SelectSeq(d.rows, LAMBDA r : KeyOf(r, group_cols) = key)
        Cell(key, c) ==
            IF \E i \in 1..Len(group_cols) : group_cols[i] = c
            THEN key[CHOOSE i \in 1..Len(group_cols) : group_cols[i] = c]
            ELSE LET j == CHOOSE j \in 1..Len(pairs) :
                            /\ names[j] = c
                            /\ \A l \in (j + 1)..Len(pairs) : names[l] # c
                     rows == Group(key)
                 IN  Reduce(pairs[j][2], [t \in 1..Len(rows) |-> rows[t][pairs[j][1]]])
    IN  [cols |-> cols,
         rows |-> [g \in 1..Len(keys) |-> [c \in Range(cols) |-> Cell(keys[g], c)]]]

\* the aggregation raises: the dictionary names a column that is not among
\* the selected ones, or asks for the mean or the standard deviation of text
AggregateRaises(d, value_cols, aggs) ==
    \E k \in 1..Len(aggs) :
        \/ aggs[k][1] \notin Range(value_cols)
        \/ /\ HasText(Column(d, aggs[k][1]))
           /\ \E j \in 1..Len(aggs[k][2]) : aggs[k][2][j] \in {"mean", "std"}

aggregate_data(d, group_by, value_cols, aggs) ==
    IF IsEmpty(d) THEN Returned(d)
    ELSE LET functions == IF aggs = NoAggFunctions
                          THEN DefaultAggFunctions(value_cols) ELSE aggs
             valid_groupby == SelectSeq(group_by, LAMBDA c : HasCol(d, c))
             valid_value_cols == SelectSeq(value_cols, LAMBDA c : HasCol(d, c))
         IN  IF valid_groupby = <<>> \/ valid_value_cols = <<>> THEN Returned(d)
             ELSE IF AggregateRaises(d, valid_value_cols, functions) THEN Returned(d)
             ELSE Returned(Aggregated(d, valid_groupby, functions))

\* the object the call returns: `data` on the early returns and after an
\* exception, else the new object that groupby(...).agg(...) built, the only
\* object the handler writes into
AggregateReturns(d, group_by, value_cols, aggs) ==
    IF IsEmpty(d) THEN "data"
    ELSE LET functions == IF aggs = NoAggFunctions
                          THEN DefaultAggFunctions(value_cols) ELSE aggs
             valid_groupby == SelectSeq(group_by, LAMBDA c : HasCol(d, c))
             valid_value_cols == SelectSeq(value_cols, LAMBDA c : HasCol(d, c))
         IN  IF valid_groupby = <<>> \/ valid_value_cols = <<>> THEN "data"
             ELSE IF AggregateRaises(d, valid_value_cols, functions) THEN "data"
             ELSE "new"

---------------------------------------------------------------------------
(* Inputs of aggregate_data: monthly observations of one value column,      *)
(* with or without the year, with or without a text column                  *)

MaxAggregateRows == 2

AggregateValues == {Num(1000), Num(2000), NaN}

AggregateObservations ==
    { [year |-> 2023, month |-> m, kw1_daily |-> v, processor_version |-> Text(1)] :
        m \in 1..2, v \in AggregateValues }

AggregateShapes ==
    { <<"year", "month", TrendColumn>>,
      <<"month", TrendColumn>>,
      <<"month", TrendColumn, TextColumn>> }

\* three daily rows in January with the values 10, 20 and 30
JanuaryRows ==
    [cols |-> <<"month", TrendColumn>>,
     rows |-> [i \in 1..3 |-> [c \in {"month", TrendColumn} |->
                                  IF c = "month" THEN 1 ELSE Num(1000 * i)]]]

AggregateFrames ==
    { [cols |-> shape,
       rows |-> [i \in 1..Len(obs) |-> [c \in Range(shape) |-> obs[i][c]]]] :
        shape \in AggregateShapes, obs \in SeqsUpTo(AggregateObservations, MaxAggregateRows) }
    \cup {JanuaryRows}

GroupByLists == { <<"month">>, <<"year", "month">>, <<"week", "month">>, <<"week">> }

AggregateColumnLists ==
    { <<TrendColumn>>, <<TrendColumn, AbsentColumn>>, <<TrendColumn, TextColumn>> }

AggFunctionChoices ==
    { NoAggFunctions,
      << <<TrendColumn, <<"mean">>>> >>,
      << <<TrendColumn, <<"sum", "max">>>> >> }

---------------------------------------------------------------------------
(* The aggregate_data call as a state machine *)

InitAggregate ==
    /\ pc = "start"
    /\ NoRebaseCall
    /\ NoTrendsCall
    /\ NoAnomalyCall
    /\ NoNormalizeCall
    /\ to_aggregate \in AggregateFrames
    /\ groupby_columns \in GroupByLists
    /\ agg_columns \in AggregateColumnLists
    /\ agg_functions \in AggFunctionChoices
    /\ aggregated = NoOutcome
    /\ transform = "aggregate_data"
    /\ NothingPassed
    /\ NoRequest

Aggregate ==
    /\ pc = "start"
    /\ transform = "aggregate_data"
    /\ aggregated' = aggregate_data(to_aggregate, groupby_columns, agg_columns, agg_functions)
    /\ after' = <<After("data", to_aggregate, "new", aggregated'.frame)>>
    /\ same_object' =
         (AggregateReturns(to_aggregate, groupby_columns, agg_columns, agg_functions) = "data")
    /\ pc' = "done"
    /\ UNCHANGED <<to_aggregate, groupby_columns, agg_columns, agg_functions>>
    /\ UNCHANGED <<rebase_vars, trend_vars, anomaly_vars, normalize_vars, transform>>
    /\ UNCHANGED request_vars

NextAggregate == Aggregate

SpecAggregate == InitAggregate /\ [][NextAggregate]_vars
---------------------------------------------------------------------------
(* A caller of any of the five transforms: small frames of each kind, and   *)
(* frames with a text column that is named as a value column                *)

SmallFrames(frames, n) == {f \in frames : Len(f.rows) <= n}

TextFrames(frames) == {WithVersion(f) : f \in {g \in frames : ~ IsEmpty(g)}}

InitTransforms ==
    /\ pc = "start"
    /\ NothingPassed
    /\ NoRequest
    /\ \/ /\ transform = "merge_daily_monthly"
          /\ daily \in SmallFrames(DailyFrames, 1)
          /\ monthly \in SmallFrames(MonthlyFrames, 1)
          /\ keywords \in KeywordLists
          /\ merged = NoOutcome
          /\ NoTrendsCall /\ NoAnomalyCall /\ NoNormalizeCall /\ NoAggregateCall
       \/ /\ transform = "calculate_trends"
          /\ data \in SmallFrames(TrendFrames, 2) \cup TextFrames(SmallFrames(TrendFrames, 1))
          /\ value_columns \in ValueColumnLists \cup {<<TrendColumn, TextColumn>>}
          /\ window_size \in 1..2
          /\ pad = FALSE
          /\ trends = NoOutcome
          /\ again_on = "none"
          /\ again = NoOutcome
          /\ NoRebaseCall /\ NoAnomalyCall /\ NoNormalizeCall /\ NoAggregateCall
       \/ /\ transform = "detect_anomalies"
          /\ series \in SmallFrames(AnomalyFrames, 2) \cup TextFrames(SmallFrames(AnomalyFrames, 1))
          /\ columns = <<>>
          /\ method = "iqr"
          /\ threshold = 15
          /\ detected = NoOutcome
          /\ calls = 0
          /\ NoRebaseCall /\ NoTrendsCall /\ NoNormalizeCall /\ NoAggregateCall
       \/ /\ transform = "normalize_data"
          /\ to_normalize \in SmallFrames(NormalizeFrames, 2)
          /\ norm_method \in NormalizeMethods
          /\ norm_columns \in NormalizeColumnLists
          /\ normalized = NoOutcome
          /\ NoRebaseCall /\ NoTrendsCall /\ NoAnomalyCall /\ NoAggregateCall
       \/ /\ transform = "aggregate_data"
          /\ to_aggregate \in SmallFrames(AggregateFrames, 2)
          /\ groupby_columns \in GroupByLists
          /\ agg_columns \in AggregateColumnLists
          /\ agg_functions \in AggFunctionChoices
          /\ aggregated = NoOutcome
          /\ NoRebaseCall /\ NoTrendsCall /\ NoAnomalyCall /\ NoNormalizeCall

NextTransforms ==
    \/ Rebase
    \/ CalculateTrends
    \/ CalculateTrendsAgain
    \/ DetectAnomalies
    \/ Normalize
    \/ Aggregate

SpecTransforms == InitTransforms /\ [][NextTransforms]_vars

---------------------------------------------------------------------------
(* Properties of the five transforms together *)

Called == pc # "start"

\* the frames the caller passed to the latest call, as they were then
Passed ==
    IF transform = "merge_daily_monthly" THEN <<daily, monthly>>
    ELSE IF transform = "calculate_trends"
         THEN (IF pc = "again" /\ again_on = "output" THEN <<trends.frame>> ELSE <<data>>)
    ELSE IF transform = "detect_anomalies" THEN <<series>>
    ELSE IF transform = "normalize_data" THEN <<to_normalize>>
    ELSE <<to_aggregate>>

\* the outcome of the latest call
Outcome ==
    IF transform = "merge_daily_monthly" THEN merged
    ELSE IF transform = "calculate_trends" THEN (IF pc = "again" THEN again ELSE trends)
    ELSE IF transform = "detect_anomalies" THEN detected
    ELSE IF transform = "normalize_data" THEN normalized
    ELSE aggregated

\* C17: no transform changes the frame the caller passed in: after rebase,
\* normalize, calculate_trends, detect_anomalies or aggregate returns
\* (normally or through its error path), the input frames have the same
\* columns, the same row order and the same values as before the call, and a
\* result that differs from the input is a distinct object.
C17_InputsUntouched ==
    Called =>
        /\ after = Passed
        /\ (Outcome.status = "returned" /\ Outcome.frame # Passed[Len(Passed)])
                => ~ same_object
        /\ transform = "merge_daily_monthly" => ~ same_object

\* C17 witness: detect_anomalies wrote the indicator of the first column into
\* its copy, failed on the text column and returned the frame it was given,
\* which holds what it held
C17_Witness ==
    /\ Called /\ transform = "detect_anomalies" /\ calls = 1
    /\ columns = <<TrendColumn, TextColumn>> /\ method = "iqr"
    /\ HasCol(series, TrendColumn) /\ HasCol(series, TextColumn)
    /\ AnomalyLoop(series, columns, 1, method, threshold) # series
    /\ detected = Returned(series)
    /\ same_object
    /\ after = <<series>>


\* column col of the frame given to the latest call has no standard
\* deviation above 0: fewer than two values, or values that are all equal
ZeroVariance(col) ==
    \A i, j \in 1..Len(series.rows) :
        (Given(col)[i][1] = "num" /\ Given(col)[j][1] = "num" /\ i # j) =>
            Given(col)[i] = Given(col)[j]

\* C21: z-score anomaly detection on a column whose standard deviation is
\* zero or undefined (a constant column, or a single-row column) flags no row:
\* `{col}_anomaly` is 0 in every row, for every threshold.
C21_ZeroVarianceFlagsNothing ==
    (Detected /\ method = "zscore" /\ ~ IsEmpty(series)) =>
        \A n \in 1..Len(columns) :
            LET col == columns[n] IN
            (HasCol(series, col) /\ ZeroVariance(col)) =>
                /\ HasCol(AnomalyOut, AnomalyName(col))
                /\ \A t \in 1..Len(AnomalyOut.rows) :
                      AnomalyOut.rows[t][AnomalyName(col)] = 0


---------------------------------------------------------------------------
(* Properties of normalize_data *)

Normalized == transform = "normalize_data" /\ pc = "done"
NormalizeOut == normalized.frame
NormalizedName(col) == col \o "_normalized"

\* the columns the latest call went through
Chosen == IF norm_columns = None THEN NumericColumns(to_normalize) ELSE norm_columns

\* column col of the frame given to normalize_data holds one number in every row
ConstantColumn(col) ==
    /\ HasCol(to_normalize, col)
    /\ \A t \in 1..Len(to_normalize.rows) :
          /\ to_normalize.rows[t][col][1] = "num"
          /\ to_normalize.rows[t][col] = to_normalize.rows[1][col]

\* C22: for a constant-valued column of any length >= 1 (a single-row column
\* too), normalize produces `{col}_normalized` = 0 in every row under each of
\* minmax, zscore and robust; no row is null, NaN or infinite.
C22_ConstantColumnIsZero ==
    (/\ Normalized
     /\ ~ IsEmpty(to_normalize)
     /\ ~ HasCol(to_normalize, TextColumn)
     /\ norm_method \in {"minmax", "zscore", "robust"}) =>
        \A n \in 1..Len(Chosen) :
            LET col == Chosen[n] IN
            ConstantColumn(col) =>
                /\ normalized.status = "returned"
                /\ HasCol(NormalizeOut, NormalizedName(col))
                /\ \A t \in 1..Len(NormalizeOut.rows) :
                      NormalizeOut.rows[t][NormalizedName(col)] = Ratio(0, 1)


\* the listed columns that the frame given to normalize_data has
ListedPresent == {c \in Range(Chosen) : HasCol(to_normalize, c)}

\* the columns of the returned frame that the given frame does not have
AddedColumns == Range(NormalizeOut.cols) \ Range(to_normalize.cols)

\* C23: normalize only adds columns: every column of the input is present in
\* the output with unchanged values; for a known method exactly one
\* `{col}_normalized` column is added per listed column that exists in the
\* frame, and for an unknown method no column is added and nothing is raised.
C23_OnlyAddsColumns ==
    (Normalized /\ ~ IsEmpty(to_normalize)) =>
        /\ normalized.status = "returned"
        /\ Len(NormalizeOut.rows) = Len(to_normalize.rows)
        /\ \A c \in Range(to_normalize.cols) :
              /\ HasCol(NormalizeOut, c)
              /\ Column(NormalizeOut, c) = Column(to_normalize, c)
        /\ Len(NormalizeOut.cols) = Cardinality(Range(NormalizeOut.cols))
        /\ IF norm_method \in {"minmax", "zscore", "robust"}
           THEN /\ AddedColumns = {NormalizedName(c) : c \in ListedPresent}
                /\ Cardinality(AddedColumns) = Cardinality(ListedPresent)
           ELSE AddedColumns = {}


---------------------------------------------------------------------------
(* Properties of aggregate_data *)

AggregateDone == transform = "aggregate_data" /\ pc = "done"
AggregateOut == aggregated.frame

\* the listed columns that the frame given to aggregate_data has
PresentKeys == SelectSeq(groupby_columns, LAMBDA c : HasCol(to_aggregate, c))
PresentValues == SelectSeq(agg_columns, LAMBDA c : HasCol(to_aggregate, c))

\* the call has at least one group key and one value column to work with
CanAggregate ==
    /\ AggregateDone
    /\ ~ IsEmpty(to_aggregate)
    /\ PresentKeys # <<>>
    /\ PresentValues # <<>>

\* the (column, reducer) pairs asked for on columns of the frame
RequestedPairs ==
    IF agg_functions = NoAggFunctions
    THEN {<<c, r>> : c \in Range(PresentValues), r \in Range(Reducers)}
    ELSE UNION { {<<agg_functions[k][1], r>> : r \in Range(agg_functions[k][2])} :
                    k \in 1..Len(agg_functions) }

\* the combinations of the present group keys that occur in the given rows
KeysOccurring == {KeyOf(to_aggregate.rows[t], PresentKeys) : t \in 1..Len(to_aggregate.rows)}

\* the rows of a group that have a value in column col
Members(key, col) ==
    {t \in 1..Len(to_aggregate.rows) :
        /\ KeyOf(to_aggregate.rows[t], PresentKeys) = key
        /\ to_aggregate.rows[t][col][1] = "num"}

ValueAt(t, col) == to_aggregate.rows[t][col][2]

RECURSIVE SumOver(_, _)
SumOver(ts, col) ==
    IF ts = {} THEN 0
    ELSE LET one == CHOOSE t \in ts : TRUE
         IN  ValueAt(one, col) + SumOver(ts \ {one}, col)

RECURSIVE SumSquaresOver(_, _)
SumSquaresOver(ts, col) ==
    IF ts = {} THEN 0
    ELSE LET one == CHOOSE t \in ts : TRUE
         IN  ValueAt(one, col) * ValueAt(one, col) + SumSquaresOver(ts \ {one}, col)

\* reducer r over the values of column col in the group of key
Expected(key, col, r) ==
    LET ts == Members(key, col)
        n == Cardinality(ts)
    IN  IF r = "sum" THEN Num(SumOver(ts, col))
        ELSE IF n = 0 THEN NaN
        ELSE IF r = "mean" THEN Ratio(SumOver(ts, col), n)
        ELSE IF r = "min"
             THEN Num(CHOOSE v \in {ValueAt(t, col) : t \in ts} :
                         \A t \in ts : v <= ValueAt(t, col))
        ELSE IF r = "max"
             THEN Num(CHOOSE v \in {ValueAt(t, col) : t \in ts} :
                         \A t \in ts : v >= ValueAt(t, col))
        ELSE IF n < 2 THEN NaN
        ELSE Root(1, n * SumSquaresOver(ts, col) - SumOver(ts, col) * SumOver(ts, col),
                  n * (n - 1))

\* C24: aggregate produces exactly one output row per distinct combination of
\* the group_by column values occurring in the input, and each reduced cell
\* is the reducer applied to exactly the rows of that group; three January
\* rows with the values 10, 20, 30, grouped by `month` with the reducer mean,
\* give one row with the value 20.0.
C24_OneRowPerGroup ==
    CanAggregate =>
        /\ \A c \in Range(PresentKeys) : HasCol(AggregateOut, c)
        /\ Len(AggregateOut.rows) = Cardinality(KeysOccurring)
        /\ \A key \in KeysOccurring :
              \E g \in 1..Len(AggregateOut.rows) :
                  /\ KeyOf(AggregateOut.rows[g], PresentKeys) = key
                  /\ \A p \in RequestedPairs :
                        /\ HasCol(AggregateOut, FlatName(p[1], p[2]))
                        /\ AggregateOut.rows[g][FlatName(p[1], p[2])]
                               = Expected(key, p[1], p[2])
        /\ (to_aggregate = JanuaryRows /\ <<TrendColumn, "mean">> \in RequestedPairs) =>
              /\ Len(AggregateOut.rows) = 1
              /\ AggregateOut.rows[1][FlatName(TrendColumn, "mean")] = Ratio(2000, 1)


\* C25: aggregate tolerates absent group keys: group_by columns that are not
\* in the frame are ignored without raising, and the result is the
\* aggregation by the remaining present keys (one row per distinct
\* combination of those), not the unaggregated input, whenever at least one
\* group key and one value column are present.
C25_AbsentKeysIgnored ==
    (CanAggregate /\ Len(PresentKeys) < Len(groupby_columns)) =>
        /\ aggregated.status = "returned"
        /\ ~ same_object
        /\ SelectSeq(AggregateOut.cols, LAMBDA c : c \in Range(groupby_columns)) = PresentKeys
        /\ Len(AggregateOut.rows) = Cardinality(KeysOccurring)
        /\ \A key \in KeysOccurring :
              \E g \in 1..Len(AggregateOut.rows) :
                  KeyOf(AggregateOut.rows[g], PresentKeys) = key


\* several reducers are asked for on one value column of the frame
SeveralReducers ==
    \E p, q \in RequestedPairs : p[1] = q[1] /\ p[2] # q[2] /\ HasCol(to_aggregate, p[1])

\* C26: when several reducers are requested for a value column, the aggregate
\* output has exactly one column per (column, reducer) pair, named
\* `{column}_{reducer}`, plus the group key columns as ordinary columns; no
\* two pairs map to the same output column name.
C26_ColumnPerPair ==
    (CanAggregate /\ SeveralReducers) =>
        /\ Range(AggregateOut.cols)
              = Range(PresentKeys) \cup {FlatName(p[1], p[2]) : p \in RequestedPairs}
        /\ Len(AggregateOut.cols) = Len(PresentKeys) + Cardinality(RequestedPairs)
        /\ \A p, q \in RequestedPairs :
              FlatName(p[1], p[2]) = FlatName(q[1], q[2]) => p = q
        /\ \A g \in 1..Len(AggregateOut.rows) :
              DOMAIN AggregateOut.rows[g] = Range(AggregateOut.cols)

---------------------------------------------------------------------------
(* validate_keywords (src/src/trends_analyzer/utils/validators.py) *)
(* A keyword is a string.  An element of the list that is not a string is   *)
(* <<"int", repr>>, a string element is <<"str", s>>.  The argument is      *)
(* <<"str", s>> for a single string and <<"list", elements>> for a list.    *)

MaxRequested == 6

MaxKeywords == 5
MaxKeywordLength == 100

Whitespace == {" ", "\t"}

First(s) == SubSeq(s, 1, 1)
Last(s) == SubSeq(s, Len(s), Len(s))

RECURSIVE lstrip(_)
lstrip(s) ==
    IF Len(s) > 0 /\ First(s) \in Whitespace
    THEN lstrip(SubSeq(s, 2, Len(s)))
    ELSE s

RECURSIVE rstrip(_)
rstrip(s) ==
    IF Len(s) > 0 /\ Last(s) \in Whitespace
    THEN rstrip(SubSeq(s, 1, Len(s) - 1))
    ELSE s

strip_LeadingOnly(s) == lstrip(s)

\* str.strip()
strip(s) == rstrip(lstrip(s))

Accepted(value) == [status |-> "returned", value |-> value]
ValueError(message) == [status |-> "ValueError", value |-> message]

IsStr(element) == element[1] = "str"

\* the `for keyword in keywords` loop from element i on, with
\* validated_keywords so far
RECURSIVE ValidateFrom(_, _, _)
ValidateFrom(list, i, validated_keywords) ==
    IF i > Len(list) THEN Accepted(validated_keywords)
    ELSE IF ~ IsStr(list[i]) THEN ValueError("Keyword must be string")
    ELSE LET keyword == strip(list[i][2])
         IN IF keyword = "" THEN ValueError("Empty keyword not allowed")
            ELSE IF Len(keyword) > MaxKeywordLength
                 THEN ValueError("Keyword too long (max 100 chars)")
                 ELSE ValidateFrom(list, i + 1, Append(validated_keywords, keyword))

AsList(kws) == IF kws[1] = "str" THEN <<kws>> ELSE kws[2]

validate_keywords(kws) ==
    LET list == AsList(kws)
    IN IF list = <<>> THEN ValueError("At least one keyword must be provided")
       ELSE IF Len(list) > MaxKeywords
            THEN ValueError("Maximum 5 keywords allowed per request")
            ELSE ValidateFrom(list, 1, <<>>)

---------------------------------------------------------------------------
(* Inputs of validate_keywords: short and padded keywords, blank ones,      *)
(* keywords of 100 and 101 letters, an element that is not a string, in     *)
(* lists of up to MaxRequested elements                                     *)

RECURSIVE Repeat(_, _)
Repeat(s, n) ==
    IF n = 0 THEN ""
    ELSE LET half == Repeat(s, n \div 2)
         IN IF n % 2 = 1 THEN half \o half \o s ELSE half \o half

Longest == Repeat("k", MaxKeywordLength)

KeywordStrings ==
    {"", " ", "a", " b ", "\tc d \t", Longest, Longest \o "k", " " \o Longest \o " "}

Elements == {<<"str", s>> : s \in KeywordStrings} \cup {<<"int", "7">>}

Replace(list, i, element) == [list EXCEPT ![i] = element]

\* every list of up to two elements; longer lists hold "a" with at most one
\* other element
RequestLists ==
    {<<>>}
    \cup {<<e>> : e \in Elements}
    \cup {<<e, f>> : e \in Elements, f \in Elements}
    \cup UNION {{Replace([k \in 1..n |-> <<"str", "a">>], i, e) :
                    i \in 1..n, e \in Elements} : n \in 3..MaxRequested}

Requests ==
    {<<"str", s>> : s \in KeywordStrings} \cup {<<"list", l>> : l \in RequestLists}

NoTransform ==
    /\ NoRebaseCall /\ NoTrendsCall /\ NoAnomalyCall
    /\ NoNormalizeCall /\ NoAggregateCall
    /\ NothingPassed
    /\ transform = "none"

InitValidate ==
    /\ pc = "start"
    /\ NoTransform
    /\ requested \in Requests
    /\ validated = [status |-> "none", value |-> <<>>]
    /\ NoAnalysisCall
    /\ NoCollectCall
    /\ NoBatchCall

ValidateKeywords ==
    /\ pc = "start"
    /\ validated.status = "none"
    /\ validated' = validate_keywords(requested)
    /\ pc' = "done"
    /\ UNCHANGED requested
    /\ UNCHANGED <<rebase_vars, trend_vars, anomaly_vars, normalize_vars,
                   aggregate_vars, transform, after, same_object>>
    /\ UNCHANGED <<analysis_vars, collect_vars, batch_vars>>

NextValidate == ValidateKeywords

SpecValidate == InitValidate /\ [][NextValidate]_vars

---------------------------------------------------------------------------
(* Properties of validate_keywords *)

ValidateDone == pc = "done" /\ validated.status # "none"

AllWhitespace(s, lo, hi) == \A k \in lo..hi : SubSeq(s, k, k) \in Whitespace

\* s[i..j] is s without its leading and trailing whitespace
Bounds(s, i, j) ==
    /\ AllWhitespace(s, 1, i - 1)
    /\ AllWhitespace(s, j + 1, Len(s))
    /\ j >= i => (SubSeq(s, i, i) \notin Whitespace /\ SubSeq(s, j, j) \notin Whitespace)

\* t is s without its leading and trailing whitespace
IsStripped(t, s) ==
    \E i \in 1..(Len(s) + 1) :
        /\ AllWhitespace(s, 1, i - 1)
        /\ \E j \in (i - 1)..Len(s) : Bounds(s, i, j) /\ t = SubSeq(s, i, j)

\* s is not empty and not longer than 100 characters once stripped
GoodKeyword(s) ==
    \E i \in 1..Len(s) :
        /\ AllWhitespace(s, 1, i - 1)
        /\ \E j \in i..Len(s) : Bounds(s, i, j) /\ j - i + 1 <= MaxKeywordLength

\* a list of 1 to 5 strings, each non-empty and of at most 100 characters
\* once stripped
Acceptable(list) ==
    /\ Len(list) \in 1..MaxKeywords
    /\ \A i \in 1..Len(list) : IsStr(list[i]) /\ GoodKeyword(list[i][2])

\* C27: validate_keywords returns exactly for a single string or a list of 1
\* to 5 strings that are each non-empty and at most 100 characters long once
\* stripped of whitespace, and then returns the stripped keywords in their
\* input order; every other input raises ValueError, and a list of more than
\* 5 elements raises the error of the count limit whatever its elements are
C27_ValidatedKeywords ==
    ValidateDone =>
        LET list == AsList(requested)
        IN /\ validated.status \in {"returned", "ValueError"}
           /\ (validated.status = "returned") = Acceptable(list)
           /\ validated.status = "returned" =>
                 /\ Len(validated.value) = Len(list)
                 /\ \A i \in 1..Len(list) : IsStripped(validated.value[i], list[i][2])
           /\ Len(list) > MaxKeywords =>
                 /\ validated.status = "ValueError"
                 /\ validated.value = "Maximum 5 keywords allowed per request"

\* a list of two padded keywords, one of them longer than 100 characters
\* before it is stripped, returned stripped and in order; and a list of six
\* elements with an empty keyword among them, refused for its length
C27_Witness ==
    /\ ValidateDone
    /\ \/ /\ requested = <<"list", <<<<"str", " " \o Longest \o " ">>, <<"str", " b ">>>>>>
          /\ validated = Accepted(<<Longest, "b">>)
       \/ /\ requested[1] = "list"
          /\ Len(requested[2]) = 6
          /\ \E i \in 1..6 : requested[2][i] = <<"str", "">>
          /\ validated.status = "ValueError"

---------------------------------------------------------------------------
(* TrendsAnalyzer.get_comprehensive_analysis                                *)
(* (src/src/trends_analyzer/core/analyzer.py).  The collector is the        *)
(* environment: `collector` holds what generate_monthly_periods,            *)
(* collect_daily_data and collect_monthly_data give, a frame or an          *)
(* exception.  The returned dictionary is a function from its keys.         *)

DefaultWindow == 7
DefaultMethod == "iqr"
DefaultThreshold == 15

RelatedQueries == "what get_related_queries returned"
RelatedTopics == "what get_related_topics returned"

Put(dict, key, value) ==
    [k \in (DOMAIN dict) \cup {key} |-> IF k = key THEN value ELSE dict[k]]

\* [col for col in merged_data.columns if col.endswith('_daily')]
DailyColumns(f) == SelectSeq(f.cols, LAMBDA c : EndsWith(c, "_daily"))

\* mutant: the anomalies are detected before the trends are calculated
Indicators_AnomaliesFirst(merged_data, padding) ==
    LET cols == DailyColumns(merged_data)
        flagged == detect_anomalies(merged_data, cols, DefaultMethod, DefaultThreshold).frame
    IN  IF cols # <<>>
        THEN calculate_trends(flagged, cols, DefaultWindow, padding).frame
        ELSE merged_data

\* the `if value_columns:` block
Indicators(merged_data, padding) ==
    LET cols == DailyColumns(merged_data)
        trended == calculate_trends(merged_data, cols, DefaultWindow, padding).frame
    IN  IF cols # <<>>
        THEN detect_anomalies(trended, cols, DefaultMethod, DefaultThreshold).frame
        ELSE merged_data

\* not daily_data.empty and not monthly_data.empty
BothCollected(daily_data, monthly_data) ==
    ~ IsEmpty(daily_data) /\ ~ IsEmpty(monthly_data)

\* the exception leaves the call: `except Exception: ... raise`
Failed(made) == [status |-> "raised", results |-> <<>>, steps |-> made]

\* the calls made from the merge to the end of the `if` on the collected frames
TransformSteps(daily_data, monthly_data, rebased) ==
    IF ~ BothCollected(daily_data, monthly_data) THEN <<>>
    ELSE IF rebased.status = "raised" \/ DailyColumns(rebased.frame) = <<>>
    THEN <<"merge_daily_monthly">>
    ELSE <<"merge_daily_monthly", "calculate_trends", "detect_anomalies">>

RelatedSteps(related) ==
    IF related THEN <<"get_related_queries", "get_related_topics">> ELSE <<>>

\* results['daily'], results['monthly'] and the related data
Stored(results, daily_data, monthly_data, related) ==
    LET stored == Put(Put(results, "daily", daily_data), "monthly", monthly_data)
    IN  IF related
        THEN Put(Put(stored, "related_queries", RelatedQueries),
                 "related_topics", RelatedTopics)
        ELSE stored

get_comprehensive_analysis(kws, coll, related, padding) ==
    LET checked == validate_keywords(kws)
        daily_data == coll.daily
        monthly_data == coll.monthly.frame
        rebased == merge_daily_monthly(daily_data, monthly_data, checked.value)
        collect == <<"validate_keywords", "generate_monthly_periods",
                     "collect_daily_data", "collect_monthly_data">>
        made == collect \o TransformSteps(daily_data, monthly_data, rebased)
    IN  IF checked.status # "returned" THEN Failed(SubSeq(collect, 1, 1))
        ELSE IF coll.periods = "raised" THEN Failed(SubSeq(collect, 1, 2))
        ELSE IF coll.monthly.status = "raised" THEN Failed(collect)
        ELSE IF ~ BothCollected(daily_data, monthly_data)
        THEN [status |-> "returned",
              results |-> Stored(<<>>, daily_data, monthly_data, related),
              steps |-> made \o RelatedSteps(related)]
        ELSE IF rebased.status = "raised" THEN Failed(made)
        ELSE [status |-> "returned",
              results |-> Stored(Put(<<>>, "comprehensive",
                                     Indicators(rebased.frame, padding)),
                                 daily_data, monthly_data, related),
              steps |-> made \o RelatedSteps(related)]

---------------------------------------------------------------------------
(* Inputs of get_comprehensive_analysis: the frames of merge_daily_monthly   *)
(* as collected data, a collector call that raises, keywords as a padded    *)
(* string, a list or an empty list                                           *)

AnalysisRequests ==
    { <<"list", <<>>>>,
      <<"str", " kw1 ">>,
      <<"list", <<<<"str", "kw2">>>>>>,
      <<"list", <<<<"str", "kw1">>, <<"str", "kw2">>>>>> }

Collectors ==
    { [periods |-> "returned", daily |-> d, monthly |-> Returned(m)] :
        d \in SmallFrames(DailyFrames, 2), m \in SmallFrames(MonthlyFrames, 1) }
    \cup { [periods |-> "returned", daily |-> d, monthly |-> Raised] :
        d \in SmallFrames(DailyFrames, 1) }
    \cup { [periods |-> "raised", daily |-> EmptyFrame, monthly |-> Returned(EmptyFrame)] }

InitAnalysis ==
    /\ pc = "start"
    /\ NoTransform
    /\ requested \in AnalysisRequests
    /\ validated = [status |-> "none", value |-> <<>>]
    /\ collector \in Collectors
    /\ include_related \in BOOLEAN
    /\ analysis = [status |-> "none", results |-> <<>>]
    /\ steps = <<>>
    /\ NoCollectCall
    /\ NoBatchCall

\* the installed pandas pads nulls in pct_change, or does not
GetComprehensiveAnalysis ==
    /\ pc = "start"
    /\ analysis.status = "none"
    /\ \E padding \in BOOLEAN :
         LET run == get_comprehensive_analysis(requested, collector,
                                               include_related, padding)
         IN  /\ analysis' = [status |-> run.status, results |-> run.results]
             /\ steps' = run.steps
    /\ validated' = validate_keywords(requested)
    /\ pc' = "done"
    /\ UNCHANGED <<requested, collector, include_related>>
    /\ UNCHANGED <<rebase_vars, trend_vars, anomaly_vars, normalize_vars,
                   aggregate_vars, transform, after, same_object>>
    /\ UNCHANGED <<collect_vars, batch_vars>>

NextAnalysis == GetComprehensiveAnalysis

SpecAnalysis == InitAnalysis /\ [][NextAnalysis]_vars

---------------------------------------------------------------------------
(* Properties of get_comprehensive_analysis *)

AnalysisDone == pc = "done" /\ analysis.status # "none"

Keys == DOMAIN analysis.results

IsTransform(call) ==
    call \in {"merge_daily_monthly", "calculate_trends", "detect_anomalies"}

\* rebase, then calculate_trends, then detect_anomalies on the frames d and m
Pipeline(d, m, kws, padding) ==
    LET rebased == merge_daily_monthly(d, m, kws).frame
        cols == DailyColumns(rebased)
        trended == calculate_trends(rebased, cols, DefaultWindow, padding).frame
    IN  detect_anomalies(trended, cols, DefaultMethod, DefaultThreshold).frame

\* a step of the call raises: the validation, a collector call or the merge
StepRaises ==
    \/ validate_keywords(requested).status # "returned"
    \/ collector.periods = "raised"
    \/ collector.monthly.status = "raised"
    \/ /\ ~ IsEmpty(collector.daily) /\ ~ IsEmpty(collector.monthly.frame)
       /\ merge_daily_monthly(collector.daily, collector.monthly.frame,
                              validate_keywords(requested).value).status = "raised"

\* C28: get_comprehensive_analysis has `comprehensive` in its result exactly
\* when the collected daily and monthly frames are both non-empty, and then
\* it is what rebase, then calculate_trends, then detect_anomalies give on
\* the collected frames, the three called in that order; a returned
\* dictionary always has `daily` and `monthly`, the collected frames; when a
\* step raises the call raises and returns no dictionary
C28_ComprehensivePipeline ==
    AnalysisDone =>
        /\ analysis.status = (IF StepRaises THEN "raised" ELSE "returned")
        /\ analysis.status = "raised" => Keys = {}
        /\ LET made == SelectSeq(steps, IsTransform)
           IN  made = SubSeq(<<"merge_daily_monthly", "calculate_trends",
                               "detect_anomalies">>, 1, Len(made))
        /\ analysis.status = "returned" =>
              /\ {"daily", "monthly"} \subseteq Keys
              /\ analysis.results["daily"] = collector.daily
              /\ analysis.results["monthly"] = collector.monthly.frame
              /\ ("comprehensive" \in Keys)
                    = (~ IsEmpty(collector.daily) /\ ~ IsEmpty(collector.monthly.frame))
              /\ "comprehensive" \in Keys =>
                    \E padding \in BOOLEAN :
                        analysis.results["comprehensive"]
                            = Pipeline(collector.daily, collector.monthly.frame,
                                       validated.value, padding)

\* a call that returns a comprehensive frame with a trend column and an
\* anomaly indicator of a rebased keyword, after the three transforms
C28_Witness ==
    /\ AnalysisDone
    /\ analysis.status = "returned"
    /\ "comprehensive" \in Keys
    /\ HasCol(analysis.results["comprehensive"], "kw1_daily_ma_7")
    /\ HasCol(analysis.results["comprehensive"], "kw1_daily_anomaly")
    /\ HasCol(analysis.results["comprehensive"], "total_anomalies")
    /\ SelectSeq(steps, IsTransform)
          = <<"merge_daily_monthly", "calculate_trends", "detect_anomalies">>

---------------------------------------------------------------------------
(* DataCollector.collect_interest_over_time                                 *)
(* (src/src/trends_analyzer/core/collector.py).  The provider is the        *)
(* environment: at an attempt it gives data ("data"), an empty frame or     *)
(* None ("empty"), or it raises ("raise").  The timeframe and the region    *)
(* are valid.                                                               *)

MaxAttempts == 5

ProviderAnswers == {"data", "empty", "raise"}

InitCollect ==
    /\ pc = "start"
    /\ NoTransform
    /\ requested \in {<<"list", <<>>>>, <<"str", " kw1 ">>,
                      <<"list", <<<<"str", "kw1">>, <<"str", "kw2">>>>>>}
    /\ validated = [status |-> "none", value |-> <<>>]
    /\ NoAnalysisCall
    /\ retry_attempts \in 0..MaxAttempts
    /\ answers = <<>>
    /\ collected = [status |-> "none", data |-> "empty"]
    /\ NoBatchCall

\* keywords = validate_keywords(keywords), before the loop
StartCollect ==
    /\ pc = "start"
    /\ collected.status = "none"
    /\ validated' = validate_keywords(requested)
    /\ IF validated'.status = "returned"
       THEN pc' = "attempt" /\ UNCHANGED collected
       ELSE pc' = "done" /\ collected' = [status |-> "raised", data |-> "ValueError"]
    /\ UNCHANGED <<requested, retry_attempts, answers>>
    /\ UNCHANGED <<rebase_vars, trend_vars, anomaly_vars, normalize_vars,
                   aggregate_vars, transform, after, same_object>>
    /\ UNCHANGED <<analysis_vars, batch_vars>>

\* one round of `for attempt in range(self.retry_attempts)`: data that is
\* not empty is returned, an exception is raised again only when the round
\* is the last, attempt == self.retry_attempts - 1
Attempt ==
    /\ pc = "attempt"
    /\ Len(answers) < retry_attempts
    /\ \E answer \in ProviderAnswers :
         /\ answers' = Append(answers, answer)
         /\ IF answer = "data"
            THEN pc' = "done" /\ collected' = [status |-> "returned", data |-> "data"]
            ELSE IF answer = "raise" /\ Len(answers) = retry_attempts - 1
            THEN pc' = "done" /\ collected' = [status |-> "raised", data |-> "Exception"]
            ELSE UNCHANGED <<pc, collected>>
    /\ UNCHANGED <<validate_vars, retry_attempts>>
    /\ UNCHANGED <<rebase_vars, trend_vars, anomaly_vars, normalize_vars,
                   aggregate_vars, transform, after, same_object>>
    /\ UNCHANGED <<analysis_vars, batch_vars>>

\* the loop ends: return pd.DataFrame()
Exhausted ==
    /\ pc = "attempt"
    /\ Len(answers) >= retry_attempts
    /\ pc' = "done"
    /\ collected' = [status |-> "returned", data |-> "empty"]
    /\ UNCHANGED <<validate_vars, retry_attempts, answers>>
    /\ UNCHANGED <<rebase_vars, trend_vars, anomaly_vars, normalize_vars,
                   aggregate_vars, transform, after, same_object>>
    /\ UNCHANGED <<analysis_vars, batch_vars>>

NextCollect == StartCollect \/ Attempt \/ Exhausted

SpecCollect == InitCollect /\ [][NextCollect]_vars

---------------------------------------------------------------------------
(* Properties of collect_interest_over_time *)

CollectDone == pc = "done" /\ collected.status # "none"

\* C29: collect_interest_over_time calls the provider at most retry_attempts
\* times, makes no call after the first attempt that gave non-empty data and
\* returns that data, and raises whenever no attempt gave non-empty data and
\* at least one attempt raised
C29_RetriesThenRaises ==
    /\ Len(answers) <= retry_attempts
    /\ \A i \in 1..Len(answers) : answers[i] = "data" => i = Len(answers)
    /\ CollectDone =>
          /\ "data" \in Range(answers) =>
                collected = [status |-> "returned", data |-> "data"]
          /\ ("data" \notin Range(answers) /\ "raise" \in Range(answers)) =>
                collected.status = "raised"

---------------------------------------------------------------------------
(* TrendsAnalyzer.analyze_batch (src/src/trends_analyzer/core/analyzer.py). *)
(* get_trends is the environment behind validate_keywords: it raises, or    *)
(* returns a frame with a `date` column and columns for some of the         *)
(* stripped keywords, or an empty frame.  A frame is held as the set of     *)
(* its keyword columns, the dictionary as a function from a keyword to the  *)
(* batch number written in its metadata.                                    *)

MaxBatchKeywords == 6
MaxBatchSize == 6

\* if batch_size > 5: batch_size = 5
Capped(size) == IF size > MaxKeywords THEN MaxKeywords ELSE size

Min(x, y) == IF x < y THEN x ELSE y

\* keyword_list[i:i + batch_size], i counted from 0
Slice(list, i, size) == SubSeq(list, i + 1, Min(i + size, Len(list)))

AsRequest(list) == <<"list", [k \in 1..Len(list) |-> <<"str", list[k]>>]>>

\* the `for keyword in batch_keywords` loop, up to keyword k
RECURSIVE StoreBatch(_, _, _, _, _)
StoreBatch(dict, batch_keywords, cols, batch_num, k) ==
    IF k = 0 THEN dict
    ELSE LET before == StoreBatch(dict, batch_keywords, cols, batch_num, k - 1)
         IN  IF batch_keywords[k] \in cols
             THEN Put(before, batch_keywords[k], batch_num)
             ELSE before

---------------------------------------------------------------------------
(* Inputs of analyze_batch: lists of distinct keywords of every length up   *)
(* to MaxBatchKeywords, a list with a repeated keyword, one with a padded   *)
(* keyword and one with an empty keyword; batch sizes from -1 on            *)

DistinctKeywords == [k \in 1..MaxBatchKeywords |-> "kw" \o ToString(k)]

BatchKeywordLists ==
    {SubSeq(DistinctKeywords, 1, n) : n \in 0..MaxBatchKeywords}
    \cup { <<"kw1", "kw2", "kw1">>, <<" kw1 ", "kw2">>, <<"kw1", "">> }

InitBatch ==
    /\ pc = "start"
    /\ NoTransform
    /\ NoValidateCall
    /\ NoAnalysisCall
    /\ NoCollectCall
    /\ keyword_list \in BatchKeywordLists
    /\ batch_size \in (-1)..MaxBatchSize
    /\ batches = <<>>
    /\ analyzed = [status |-> "none", results |-> <<>>]

\* range(0, len(keyword_list), batch_size) raises ValueError for a step of 0
StartBatches ==
    /\ pc = "start"
    /\ analyzed.status = "none"
    /\ IF Capped(batch_size) = 0
       THEN pc' = "done" /\ analyzed' = [status |-> "raised", results |-> <<>>]
       ELSE pc' = "batch" /\ UNCHANGED analyzed
    /\ UNCHANGED <<keyword_list, batch_size, batches>>
    /\ UNCHANGED <<rebase_vars, trend_vars, anomaly_vars, normalize_vars,
                   aggregate_vars, transform, after, same_object>>
    /\ UNCHANGED <<validate_vars, analysis_vars, collect_vars>>

\* one round of the loop over range(0, len(keyword_list), batch_size)
Batch ==
    /\ pc = "batch"
    /\ Capped(batch_size) > 0
    /\ Len(batches) * Capped(batch_size) < Len(keyword_list)
    /\ LET i == Len(batches) * Capped(batch_size)
           batch_keywords == Slice(keyword_list, i, Capped(batch_size))
           batch_num == (i \div Capped(batch_size)) + 1
           checked == validate_keywords(AsRequest(batch_keywords))
       IN  \/ /\ checked.status = "returned"
              /\ \E cols \in SUBSET Range(checked.value) :
                    /\ batches' = Append(batches, [keywords |-> batch_keywords,
                                                   status |-> "returned",
                                                   columns |-> cols])
                    /\ analyzed' = [analyzed EXCEPT !.results =
                                       StoreBatch(@, batch_keywords, cols, batch_num,
                                                  Len(batch_keywords))]
                    /\ UNCHANGED pc
           \/ /\ batches' = Append(batches, [keywords |-> batch_keywords,
                                             status |-> "raised",
                                             columns |-> {}])
              /\ analyzed' = [status |-> "raised", results |-> <<>>]
              /\ pc' = "done"
    /\ UNCHANGED <<keyword_list, batch_size>>
    /\ UNCHANGED <<rebase_vars, trend_vars, anomaly_vars, normalize_vars,
                   aggregate_vars, transform, after, same_object>>
    /\ UNCHANGED <<validate_vars, analysis_vars, collect_vars>>

\* the range is used up, or empty for a negative step: return results
FinishBatches ==
    /\ pc = "batch"
    /\ \/ Capped(batch_size) < 0
       \/ Len(batches) * Capped(batch_size) >= Len(keyword_list)
    /\ analyzed' = [analyzed EXCEPT !.status = "returned"]
    /\ pc' = "done"
    /\ UNCHANGED <<keyword_list, batch_size, batches>>
    /\ UNCHANGED <<rebase_vars, trend_vars, anomaly_vars, normalize_vars,
                   aggregate_vars, transform, after, same_object>>
    /\ UNCHANGED <<validate_vars, analysis_vars, collect_vars>>

NextBatch == StartBatches \/ Batch \/ FinishBatches

SpecBatch == InitBatch /\ [][NextBatch]_vars

---------------------------------------------------------------------------
(* Properties of analyze_batch *)

BatchDone == pc = "done" /\ analyzed.status # "none"

RECURSIVE Requested(_)
Requested(k) == IF k = 0 THEN <<>> ELSE Requested(k - 1) \o batches[k].keywords

\* the batch that requests position p of keyword_list
BatchOf(p) ==
    CHOOSE b \in 1..Len(batches) :
        /\ Len(Requested(b - 1)) < p
        /\ p <= Len(Requested(b))

NoCallRaised == \A b \in 1..Len(batches) : batches[b].status = "returned"

\* C30: analyze_batch requests keyword_list in consecutive slices of at most
\* min(batch_size, 5) keywords, in list order, each keyword in exactly one
\* batch; the keys of the returned dictionary are keywords of the list, no
\* more than the list has, and a keyword is a key exactly when the frame of
\* its batch has a column of that name
C30_BatchesCoverList ==
    /\ \A b \in 1..Len(batches) :
          Len(batches[b].keywords) \in 1..Min(batch_size, MaxKeywords)
    /\ Requested(Len(batches)) = SubSeq(keyword_list, 1, Len(Requested(Len(batches))))
    /\ (BatchDone /\ NoCallRaised) =>
          /\ analyzed.status = "returned"
          /\ Requested(Len(batches)) = keyword_list
          /\ DOMAIN analyzed.results \subseteq Range(keyword_list)
          /\ Cardinality(DOMAIN analyzed.results) <= Len(keyword_list)
          /\ \A p \in 1..Len(keyword_list) :
                (keyword_list[p] \in DOMAIN analyzed.results)
                    = (keyword_list[p] \in batches[BatchOf(p)].columns)

=============================================================================
